---- MODULE Spec2Model ----
(***************************************************************************)
(* A model of go-cert-provider's provider registry, bootstrap manager,    *)
(* JWT issue/verify code, session manager and process start.               *)
(*                                                                         *)
(*   Spec      the CertificateProviderRegistry (cert/registry/registry.go) *)
(*             driven by arbitrary Register / lookup / listing / retrieval *)
(*             calls.                                                      *)
(*   SpecBoot  the BootstrapManager (cert/registry/bootstrap_manager.go):  *)
(*             bootstraps are registered, then InitializeProviders runs    *)
(*             once against the empty registry, as at process startup.     *)
(*   SpecJwt   CreateJWT / ParseJWT (auth/jwt.go) on inputs drawn in the   *)
(*             initial state, with a clock that ticks between the calls.   *)
(*   SpecSession  the SessionManager (session/session.go) called from two  *)
(*             threads, with its asynchronous deletes and its sweeps.      *)
(*   SpecSingleton  GetGlobalSessionManager called from two threads.       *)
(*   SpecLock  the registry with Register writing its maps entry by entry  *)
(*             under registry.mu, and lookups that wait for the lock.      *)
(*   SpecStart the start of the process (cmd/root.go, cert/init.go):       *)
(*             package init, PersistentPreRunE, the command body.          *)
(*   SpecToken the jwt create-token command (cmd/jwt-create-token.go) and   *)
(*             ParseJWT on the token it prints.                            *)
(*   SpecRetrieve  the registry while retrievals wait in the provider's    *)
(*             upstream call.                                              *)
(*   SpecEvictFair, SpecSweepFair  the SessionManager with the waiting on   *)
(*             sm.mutex made explicit, under fair scheduling of the         *)
(*             evictions and of the background sweep.                       *)
(***************************************************************************)
EXTENDS Integers, Sequences, FiniteSets, TLC

VARIABLES
    providers,   \* registry.providers : provider name -> provider
    domainMap,   \* registry.domainMap : domain name   -> provider
    registered,  \* history: the providers whose Register call returned nil
    last,        \* history: the last call made, its argument and its result
    bootstraps,  \* BootstrapManager.bootstraps
    initResult,  \* what InitializeProviders returned and did, NotRun before it
    now,         \* the clock time.Now() reads, in ticks
    req,         \* the arguments of the CreateJWT call
    token,       \* the token CreateJWT returned, NoToken before the call
    verified,    \* history: the last ParseJWT call and what it returned
    accepted,    \* history: when a ParseJWT call first succeeded, NeverAccepted before
    clock,       \* the clock the session manager reads, in half hours
    sessions,    \* SessionManager.sessions : session ID -> *UserSession
    issued,      \* how many IDs uuid.New() has handed out
    reading,     \* per thread: the GetSession call that holds the read lock
    evictions,   \* the IDs of the started `go sm.DeleteSession(id)` not yet run
    creations,   \* history: for each stored session, the CreateSession call that
                 \* stored it (its arguments and the time it read)
    deleted,     \* history: the issued IDs for which a DeleteSession call has returned
    lastGet,     \* history: the last GetSession call that returned: its argument and
                 \* whether it returned sessions[id] (a pointer to the stored record)
    globalSessionManager,  \* the package variable: an instance number, 0 for nil
    instances,   \* how many SessionManager instances NewSessionManager has made
    callPC,      \* per thread: where its GetGlobalSessionManager call stands
    obtained,    \* per thread: the instance its last call returned, 0 before
    stores,      \* per instance: the threads that created a session in it
    writer,      \* the Register call that holds registry.mu, NoWriter if none
    seen,        \* history: the two maps as the last lookup or listing found them
    phase,       \* how far the process has come from package init to the command body
    command,     \* the command path the process was started with
    appState,    \* cmd.appState: NoState (nil) or the published registry and manager
    globalProviderRegistry,  \* cert.globalProviderRegistry: 0 (nil) or the instance
    globalBootstrapManager,  \* cert.globalBootstrapManager: 0 (nil) or the instance
    systems,     \* history: number of registry/manager pairs created so far
    returned,    \* history: the pairs InitializeCertificateSystem has returned, in order
    served,      \* history: what the command body did, NotServed before it ran
    lockWaiters, \* the goroutines that wait in sm.mutex.Lock(): session IDs, Sweeper
    upstream     \* per thread: the provider call its registry retrieval waits in

registryVars == <<providers, domainMap, registered, last>>

bootVars == <<bootstraps, initResult>>

jwtVars == <<now, req, token, verified, accepted>>

sessionVars == <<clock, sessions, issued, reading, evictions, creations, deleted, lastGet>>

singletonVars == <<globalSessionManager, instances, callPC, obtained, stores>>

\* the state of the process around the registry, tokens and sessions
lockVars == <<writer, seen>>

startVars == <<phase, command, appState, globalProviderRegistry,
               globalBootstrapManager, systems, returned, served>>

waitVars == <<lockWaiters>>

retrieveVars == <<upstream>>

processVars == <<singletonVars, lockVars, startVars, waitVars, retrieveVars>>

vars == <<providers, domainMap, registered, last, bootstraps, initResult,
          now, req, token, verified, accepted,
          clock, sessions, issued, reading, evictions, creations, deleted, lastGet,
          globalSessionManager, instances, callPC, obtained, stores,
          writer, seen, phase, command, appState, globalProviderRegistry,
          globalBootstrapManager, systems, returned, served, lockWaiters,
          upstream>>

----------------------------------------------------------------------------
(* Bounds and input universes of the registry model *)

\* longest domain list of a provider
MaxDomains == 2

ProviderNames == {"porkbun", "cloudflare"}

\* domains providers may claim
ProviderDomains == {"a.com", "*.example.com"}

\* domains callers may ask for
LookupDomains == ProviderDomains \cup {"a.example.com"}

\* (apiKey, secretKey) pairs a provider may hold
Credentials == {<<"key", "secret">>, <<"", "secret">>}

RECURSIVE SeqsUpTo(_, _)
SeqsUpTo(S, n) ==
    IF n = 0 THEN {<<>>}
    ELSE LET shorter == SeqsUpTo(S, n - 1)
         IN  shorter \cup {Append(s, x) : s \in {t \in shorter : Len(t) = n - 1}, x \in S}

\* A provider object: porkbun.Provider seen through the CertificateProvider
\* interface, with a name of its own so that several provider types exist.
ProviderObjects ==
    [name : ProviderNames,
     domains : SeqsUpTo(ProviderDomains, MaxDomains),
     apiKey : {c[1] : c \in Credentials},
     secretKey : {c[2] : c \in Credentials}]

NoProvider == [name |-> "<nil>"]

EmptyMap == [x \in {} |-> NoProvider]

Range(s) == {s[i] : i \in DOMAIN s}

----------------------------------------------------------------------------
(* The provider's own methods *)

GetProviderName(p) == p.name

GetDomains(p) == p.domains

\* nil error (TRUE) iff both credentials are present
ValidateConfiguration(p) == p.apiKey # "" /\ p.secretKey # ""

\* outcomes of the upstream call client.RetrieveSSL
UpstreamOutcomes == {"ok", "upstream-error"}

\* Provider.RetrieveCertificate(domain) when the upstream call ends in `up`
ProviderRetrieve(p, d, up) ==
    IF d \notin Range(p.domains)
    THEN [err |-> "not-managed", cert |-> <<>>, upstreamCalls |-> 0]
    ELSE IF up # "ok"
    THEN [err |-> "upstream-error", cert |-> <<>>, upstreamCalls |-> 1]
    ELSE [err |-> "none", cert |-> <<"chain", p.name, d>>, upstreamCalls |-> 1]

----------------------------------------------------------------------------
(* CertificateProviderRegistry *)

\* ClaimDomains with `continue` in place of the error return: a claimed domain
\* is skipped and the registration goes on
RECURSIVE ClaimDomains_SkipClaimed(_, _, _, _)
ClaimDomains_SkipClaimed(dm, p, ds, i) ==
    IF i > Len(ds) THEN [domainMap |-> dm, err |-> "none"]
    ELSE IF ds[i] \in DOMAIN dm
         THEN ClaimDomains_SkipClaimed(dm, p, ds, i + 1)
         ELSE ClaimDomains_SkipClaimed((ds[i] :> p) @@ dm, p, ds, i + 1)

\* ClaimDomains without the `exists` test: every domain is (re)bound to p
RECURSIVE ClaimDomains_Overwrite(_, _, _, _)
ClaimDomains_Overwrite(dm, p, ds, i) ==
    IF i > Len(ds) THEN [domainMap |-> dm, err |-> "none"]
    ELSE ClaimDomains_Overwrite((ds[i] :> p) @@ dm, p, ds, i + 1)

\* the loop of Register over provider.GetDomains(): stops at the first domain
\* already in the map, keeping what it inserted before
RECURSIVE ClaimDomains(_, _, _, _)
ClaimDomains(dm, p, ds, i) ==
    IF i > Len(ds) THEN [domainMap |-> dm, err |-> "none"]
    ELSE IF ds[i] \in DOMAIN dm
         THEN [domainMap |-> dm, err |-> "DuplicateDomain"]
         ELSE ClaimDomains((ds[i] :> p) @@ dm, p, ds, i + 1)

\* Register without the test of the provider map (lines 32-34 dropped)
RegisterResult_NoNameCheck(pm, dm, p) ==
    IF ~ValidateConfiguration(p)
    THEN [providers |-> pm, domainMap |-> dm, err |-> "InvalidConfiguration"]
    ELSE LET pm2 == (GetProviderName(p) :> p) @@ pm
             r == ClaimDomains(dm, p, GetDomains(p), 1)
         IN  [providers |-> pm2, domainMap |-> r.domainMap, err |-> r.err]

\* Register as a function of the two maps: the maps after the call and the error
RegisterResult(pm, dm, p) ==
    IF GetProviderName(p) \in DOMAIN pm
    THEN [providers |-> pm, domainMap |-> dm, err |-> "DuplicateProvider"]
    ELSE IF ~ValidateConfiguration(p)
    THEN [providers |-> pm, domainMap |-> dm, err |-> "InvalidConfiguration"]
    ELSE LET pm2 == (GetProviderName(p) :> p) @@ pm
             r == ClaimDomains(dm, p, GetDomains(p), 1)
         IN  [providers |-> pm2, domainMap |-> r.domainMap, err |-> r.err]

GetProviderForDomain(dm, d) ==
    IF d \notin DOMAIN dm
    THEN [provider |-> NoProvider, err |-> "UnknownDomain"]
    ELSE [provider |-> dm[d], err |-> "none"]

GetProvider(pm, n) ==
    IF n \notin DOMAIN pm
    THEN [provider |-> NoProvider, err |-> "UnknownProvider"]
    ELSE [provider |-> pm[n], err |-> "none"]

\* the names in the provider map (Go's map order is unspecified: a set)
ListProviders(pm) == DOMAIN pm

ListDomains(dm) == DOMAIN dm

\* Registry.RetrieveCertificate that calls the provider again after an error
RegistryRetrieve_Retry(dm, d, up) ==
    LET r == GetProviderForDomain(dm, d)
    IN  IF r.err # "none"
        THEN [err |-> r.err, cert |-> <<>>, invoked |-> <<>>, upstreamCalls |-> 0]
        ELSE LET c == ProviderRetrieve(r.provider, d, up)
             IN  IF c.err = "none"
                 THEN [err |-> c.err, cert |-> c.cert,
                       invoked |-> <<<<r.provider, d>>>>,
                       upstreamCalls |-> c.upstreamCalls]
                 ELSE [err |-> c.err, cert |-> c.cert,
                       invoked |-> <<<<r.provider, d>>, <<r.provider, d>>>>,
                       upstreamCalls |-> 2 * c.upstreamCalls]

\* Registry.RetrieveCertificate: resolve, then one call of the provider
RegistryRetrieve(dm, d, up) ==
    LET r == GetProviderForDomain(dm, d)
    IN  IF r.err # "none"
        THEN [err |-> r.err, cert |-> <<>>, invoked |-> <<>>, upstreamCalls |-> 0]
        ELSE LET c == ProviderRetrieve(r.provider, d, up)
             IN  [err |-> c.err, cert |-> c.cert,
                  invoked |-> <<<<r.provider, d>>>>,
                  upstreamCalls |-> c.upstreamCalls]

----------------------------------------------------------------------------
(* Actions of the registry *)

NoCall == [op |-> "none"]

Register(p) ==
    LET r == RegisterResult(providers, domainMap, p)
    IN  /\ providers' = r.providers
        /\ domainMap' = r.domainMap
        /\ registered' = IF r.err = "none" THEN registered \cup {p} ELSE registered
        /\ last' = [op |-> "Register", provider |-> p, err |-> r.err]
        /\ UNCHANGED <<bootVars, jwtVars, sessionVars, processVars>>

ResolveDomain(d) ==
    /\ last' = [op |-> "ResolveDomain", domain |-> d,
                result |-> GetProviderForDomain(domainMap, d)]
    /\ UNCHANGED <<providers, domainMap, registered>>
    /\ UNCHANGED <<bootVars, jwtVars, sessionVars, processVars>>

LookupProvider(n) ==
    /\ last' = [op |-> "GetProvider", name |-> n, result |-> GetProvider(providers, n)]
    /\ UNCHANGED <<providers, domainMap, registered>>
    /\ UNCHANGED <<bootVars, jwtVars, sessionVars, processVars>>

Listing ==
    /\ last' = [op |-> "List", names |-> ListProviders(providers),
                domains |-> ListDomains(domainMap)]
    /\ UNCHANGED <<providers, domainMap, registered>>
    /\ UNCHANGED <<bootVars, jwtVars, sessionVars, processVars>>

RetrieveCertificate(d, up) ==
    /\ last' = [op |-> "RetrieveCertificate", domain |-> d, upstream |-> up,
                result |-> RegistryRetrieve(domainMap, d, up)]
    /\ UNCHANGED <<providers, domainMap, registered>>
    /\ UNCHANGED <<bootVars, jwtVars, sessionVars, processVars>>

NotRun == [err |-> "not-run"]

NoRequest == [key |-> ""]

NoToken == [segments |-> 0]

NotVerified == [err |-> "not-called"]

NeverAccepted == -1

\* callers of the session manager
Threads == {"t1", "t2"}

\* the values uuid.New().String() returns, in the order it returns them: an ID
\* is never handed out twice
SessionIDs == <<"s1", "s2">>

\* an ID no CreateSession call returns
UnknownID == "s0"

\* no GetSession call in progress on a thread
Idle == [id |-> UnknownID, at |-> -1]

\* the nil *UserSession
NoSession == [SessionID |-> UnknownID]

NoGet == [id |-> UnknownID, found |-> FALSE]

\* the empty map
NoSessions == [id \in {} |-> NoSession]

RegistryInit ==
    /\ providers = EmptyMap
    /\ domainMap = EmptyMap
    /\ registered = {}
    /\ last = NoCall

BootInit ==
    /\ bootstraps = <<>>
    /\ initResult = NotRun

JwtIdle ==
    /\ now = 0
    /\ req = NoRequest
    /\ token = NoToken
    /\ verified = NotVerified
    /\ accepted = NeverAccepted

\* NewSessionManager
SessionInit ==
    /\ clock = 0
    /\ sessions = NoSessions
    /\ issued = 0
    /\ reading = [t \in Threads |-> Idle]
    /\ evictions = {}
    /\ creations = NoSessions
    /\ deleted = {}
    /\ lastGet = NoGet

NoWriter == [at |-> 0]

NoCommand == <<>>

NoState == [providerRegistry |-> 0, bootstrapManager |-> 0]

NotServed == [err |-> "not-run"]

NotSeen == [read |-> FALSE]

\* no GetGlobalSessionManager call has been made
SingletonInit ==
    /\ globalSessionManager = 0
    /\ instances = 0
    /\ callPC = [t \in Threads |-> "idle"]
    /\ obtained = [t \in Threads |-> 0]
    /\ stores = <<>>

\* registry.mu is free, nothing was read yet
LockInit ==
    /\ writer = NoWriter
    /\ seen = NotSeen

\* the process image is loaded, no package init function has run
StartInit ==
    /\ phase = "loaded"
    /\ command = NoCommand
    /\ appState = NoState
    /\ globalProviderRegistry = 0
    /\ globalBootstrapManager = 0
    /\ systems = 0
    /\ returned = <<>>
    /\ served = NotServed

\* no goroutine waits for sm.mutex
WaitInit ==
    lockWaiters = {}

NoUpstream == [domain |-> ""]

\* no retrieval is in the provider's call
RetrieveInit ==
    upstream = [t \in Threads |-> NoUpstream]

ProcessInit == SingletonInit /\ LockInit /\ StartInit /\ WaitInit /\ RetrieveInit

Init == RegistryInit /\ BootInit /\ JwtIdle /\ SessionInit /\ ProcessInit

Next ==
    \/ \E p \in ProviderObjects : Register(p)
    \/ \E d \in LookupDomains : ResolveDomain(d)
    \/ \E n \in ProviderNames : LookupProvider(n)
    \/ Listing
    \/ \E d \in LookupDomains, up \in UpstreamOutcomes : RetrieveCertificate(d, up)

Spec == Init /\ [][Next]_vars

----------------------------------------------------------------------------
(* Provider bootstraps (cert/providers/porkbun/bootstrap.go) *)

\* most bootstraps a manager holds
MaxBootstraps == 2

\* The --porkbun-domains / PORKBUN_DOMAINS string, as its comma-separated
\* parts; <<>> is the empty string, " " a part that is blank after trimming.
DomainStrings == {<<>>, <<" ">>, <<"a.com">>, <<"a.com", " ", "*.example.com">>}

\* What the upstream account answers to Ping and ListDomains
UpstreamAccounts ==
    {[ping |-> FALSE, listOk |-> FALSE, domains |-> <<>>],
     [ping |-> TRUE, listOk |-> FALSE, domains |-> <<>>],
     [ping |-> TRUE, listOk |-> TRUE, domains |-> <<>>],
     [ping |-> TRUE, listOk |-> TRUE,
      domains |-> <<[domain |-> "a.com", status |-> "EXPIRED"]>>],
     [ping |-> TRUE, listOk |-> TRUE,
      domains |-> <<[domain |-> "*.example.com", status |-> "EXPIRED"],
                    [domain |-> "a.com", status |-> "ACTIVE"]>>]}

Unreachable == [ping |-> FALSE, listOk |-> FALSE, domains |-> <<>>]

\* A bootstrap with its settings resolved (flag, else environment); the
\* upstream account only matters when no domain string is given.
BootstrapObjects ==
    {b \in [name : ProviderNames,
            apiKey : {c[1] : c \in Credentials},
            secretKey : {c[2] : c \in Credentials},
            domainsStr : DomainStrings,
            upstream : UpstreamAccounts] :
        b.domainsStr # <<>> => b.upstream = Unreachable}

IsConfigured(b) == b.apiKey # "" /\ b.secretKey # ""

\* parseDomains: the trimmed, non-empty parts in order
RECURSIVE parseDomains(_)
parseDomains(parts) ==
    IF parts = <<>> THEN <<>>
    ELSE IF Head(parts) = " " THEN parseDomains(Tail(parts))
         ELSE <<Head(parts)>> \o parseDomains(Tail(parts))

\* the names of the ACTIVE domains of an account listing, in order
RECURSIVE ActiveDomains(_)
ActiveDomains(ds) ==
    IF ds = <<>> THEN <<>>
    ELSE IF Head(ds).status = "ACTIVE"
         THEN <<Head(ds).domain>> \o ActiveDomains(Tail(ds))
         ELSE ActiveDomains(Tail(ds))

NewProvider(name, apiKey, secretKey, domains) ==
    [name |-> name, domains |-> domains, apiKey |-> apiKey, secretKey |-> secretKey]

CreateFailed(why) == [err |-> why, provider |-> NoProvider]

\* CreateProvider that accepts a domain string without a valid part and an
\* account listing without an active domain
CreateProvider_AnyDomains(b) ==
    IF b.apiKey = "" THEN CreateFailed("api-key-not-configured")
    ELSE IF b.secretKey = "" THEN CreateFailed("secret-key-not-configured")
    ELSE LET found ==
                 IF b.domainsStr # <<>>
                 THEN [err |-> "none", domains |-> parseDomains(b.domainsStr)]
                 ELSE IF ~b.upstream.ping
                      THEN [err |-> "connect-failed", domains |-> <<>>]
                 ELSE IF ~b.upstream.listOk
                      THEN [err |-> "list-failed", domains |-> <<>>]
                 ELSE [err |-> "none", domains |-> ActiveDomains(b.upstream.domains)]
         IN  IF found.err # "none" THEN CreateFailed(found.err)
             ELSE LET p == NewProvider(b.name, b.apiKey, b.secretKey, found.domains)
                  IN  IF ~ValidateConfiguration(p) THEN CreateFailed("validation-failed")
                      ELSE [err |-> "none", provider |-> p]

CreateProvider(b) ==
    IF b.apiKey = "" THEN CreateFailed("api-key-not-configured")
    ELSE IF b.secretKey = "" THEN CreateFailed("secret-key-not-configured")
    ELSE LET found ==
                 IF b.domainsStr # <<>>
                 THEN IF Len(parseDomains(b.domainsStr)) = 0
                      THEN [err |-> "no-valid-domains", domains |-> <<>>]
                      ELSE [err |-> "none", domains |-> parseDomains(b.domainsStr)]
                 ELSE IF ~b.upstream.ping
                      THEN [err |-> "connect-failed", domains |-> <<>>]
                 ELSE IF ~b.upstream.listOk
                      THEN [err |-> "list-failed", domains |-> <<>>]
                 ELSE IF Len(b.upstream.domains) = 0
                      THEN [err |-> "no-domains-found", domains |-> <<>>]
                 ELSE IF Len(ActiveDomains(b.upstream.domains)) = 0
                      THEN [err |-> "no-active-domains", domains |-> <<>>]
                 ELSE [err |-> "none", domains |-> ActiveDomains(b.upstream.domains)]
         IN  IF found.err # "none" THEN CreateFailed(found.err)
             ELSE LET p == NewProvider(b.name, b.apiKey, b.secretKey, found.domains)
                  IN  IF ~ValidateConfiguration(p) THEN CreateFailed("validation-failed")
                      ELSE [err |-> "none", provider |-> p]

----------------------------------------------------------------------------
(* BootstrapManager *)

InitDone(pm, dm, activated, created, err, at) ==
    [providers |-> pm, domainMap |-> dm, activated |-> activated,
     created |-> created, err |-> err, failedAt |-> at]

\* InitializeProviders whose loop goes on to the next bootstrap when
\* CreateProvider or Register fails
RECURSIVE InitializeLoop_SkipFailed(_, _, _, _, _, _, _)
InitializeLoop_SkipFailed(bs, i, pm, dm, activated, created, configuredCount) ==
    IF i > Len(bs)
    THEN InitDone(pm, dm, activated, created,
                  IF configuredCount = 0 THEN "NoProvidersConfigured" ELSE "none", 0)
    ELSE IF ~IsConfigured(bs[i])
    THEN InitializeLoop_SkipFailed(bs, i + 1, pm, dm, activated, created, configuredCount)
    ELSE LET c == CreateProvider(bs[i])
         IN  IF c.err # "none"
             THEN InitializeLoop_SkipFailed(bs, i + 1, pm, dm, activated, Append(created, i),
                                            configuredCount)
             ELSE LET r == RegisterResult(pm, dm, c.provider)
                  IN  IF r.err # "none"
                      THEN InitializeLoop_SkipFailed(bs, i + 1, r.providers, r.domainMap,
                                                     activated, Append(created, i),
                                                     configuredCount)
                      ELSE InitializeLoop_SkipFailed(bs, i + 1, r.providers, r.domainMap,
                                                     Append(activated, i),
                                                     Append(created, i), configuredCount + 1)

\* InitializeProviders that calls CreateProvider without asking IsConfigured
\* and does not test configuredCount
RECURSIVE InitializeLoop_NoGuards(_, _, _, _, _, _, _)
InitializeLoop_NoGuards(bs, i, pm, dm, activated, created, configuredCount) ==
    IF i > Len(bs)
    THEN InitDone(pm, dm, activated, created, "none", 0)
    ELSE LET c == CreateProvider(bs[i])
         IN  IF c.err # "none"
             THEN InitDone(pm, dm, activated, Append(created, i), "CreateProviderFailed", i)
             ELSE LET r == RegisterResult(pm, dm, c.provider)
                  IN  IF r.err # "none"
                      THEN InitDone(r.providers, r.domainMap, activated, Append(created, i),
                                    "RegisterFailed", i)
                      ELSE InitializeLoop_NoGuards(bs, i + 1, r.providers, r.domainMap,
                                                   Append(activated, i),
                                                   Append(created, i), configuredCount + 1)

\* The loop of InitializeProviders from bootstrap i on: `created` lists the
\* bootstraps CreateProvider was called on, `activated` those whose provider
\* was registered, `failedAt` the one that ended the loop with an error.
RECURSIVE InitializeLoop(_, _, _, _, _, _, _)
InitializeLoop(bs, i, pm, dm, activated, created, configuredCount) ==
    IF i > Len(bs)
    THEN InitDone(pm, dm, activated, created,
                  IF configuredCount = 0 THEN "NoProvidersConfigured" ELSE "none", 0)
    ELSE IF ~IsConfigured(bs[i])
    THEN InitializeLoop(bs, i + 1, pm, dm, activated, created, configuredCount)
    ELSE LET c == CreateProvider(bs[i])
         IN  IF c.err # "none"
             THEN InitDone(pm, dm, activated, Append(created, i), "CreateProviderFailed", i)
             ELSE LET r == RegisterResult(pm, dm, c.provider)
                  IN  IF r.err # "none"
                      THEN InitDone(r.providers, r.domainMap, activated, Append(created, i),
                                    "RegisterFailed", i)
                      ELSE InitializeLoop(bs, i + 1, r.providers, r.domainMap,
                                          Append(activated, i),
                                          Append(created, i), configuredCount + 1)

RegisterBootstrap(b) ==
    /\ initResult = NotRun
    /\ Len(bootstraps) < MaxBootstraps
    /\ bootstraps' = Append(bootstraps, b)
    /\ UNCHANGED <<providers, domainMap, registered, last, initResult>>
    /\ UNCHANGED <<jwtVars, sessionVars, processVars>>

InitializeProviders ==
    /\ initResult = NotRun
    /\ LET r == InitializeLoop(bootstraps, 1, providers, domainMap, <<>>, <<>>, 0)
       IN  /\ providers' = r.providers
           /\ domainMap' = r.domainMap
           /\ registered' = registered \cup
                  {CreateProvider(bootstraps[i]).provider : i \in Range(r.activated)}
           /\ initResult' = [err |-> r.err, created |-> r.created,
                             activated |-> r.activated, failedAt |-> r.failedAt]
    /\ UNCHANGED <<last, bootstraps>>
    /\ UNCHANGED <<jwtVars, sessionVars, processVars>>

BootNext ==
    \/ \E b \in BootstrapObjects : RegisterBootstrap(b)
    \/ InitializeProviders

SpecBoot == Init /\ [][BootNext]_vars

----------------------------------------------------------------------------
(* Tokens (auth/jwt.go, on github.com/golang-jwt/jwt/v5 and encoding/json) *)

\* the clock stops here
MaxTime == 4

\* clock ticks in one second; time.Time values are tick counts
TicksPerSecond == 2

\* Text is a sequence of bytes (a Go string): 97 is "a", 42 "*", 46 ".",
\* 195 169 the two-byte encoding of U+00E9, a lone 195 or 169 is not UTF-8.
UserIDs == {<<97>>, <<195, 169>>, <<195>>, <<>>}

Descriptions == {<<97>>, <<169, 97>>, <<>>}

DomainLists == {<<>>, <<<<42, 46, 97>>>>, <<<<97>>, <<42, 46, 97>>>>, <<<<42, 46, 97>>, <<195>>>>}

SigningKeys == {"k", "w", ""}

ExpiryTimes == 0 .. (MaxTime + TicksPerSecond)

Requests ==
    [userID : UserIDs, description : Descriptions, expiresAt : ExpiryTimes,
     allowedDomains : DomainLists, key : SigningKeys]

\* encoding/json writes a string coerced to valid UTF-8: every byte that does
\* not start a well-formed sequence becomes U+FFFD (bytes 239 191 189)
RECURSIVE CoerceUTF8(_)
CoerceUTF8(s) ==
    IF s = <<>> THEN <<>>
    ELSE IF s[1] < 128 THEN <<s[1]>> \o CoerceUTF8(Tail(s))
    ELSE IF s[1] \in 194 .. 223 /\ Len(s) >= 2 /\ s[2] \in 128 .. 191
         THEN <<s[1], s[2]>> \o CoerceUTF8(SubSeq(s, 3, Len(s)))
    ELSE IF s[1] \in 224 .. 239 /\ Len(s) >= 3 /\ s[2] \in 128 .. 191 /\ s[3] \in 128 .. 191
         THEN <<s[1], s[2], s[3]>> \o CoerceUTF8(SubSeq(s, 4, Len(s)))
    ELSE <<239, 191, 189>> \o CoerceUTF8(Tail(s))

\* jwt.NewNumericDate: the time truncated to whole seconds
NumericDate(t) == (t \div TicksPerSecond) * TicksPerSecond

\* the JSON claims object that json.Marshal writes for a JWTClaims value
EncodeClaims(c) ==
    [user_id |-> CoerceUTF8(c.UserID),
     description |-> CoerceUTF8(c.Description),
     allowed_domains |-> [i \in DOMAIN c.AllowedDomains |-> CoerceUTF8(c.AllowedDomains[i])],
     exp |-> c.ExpiresAt, iat |-> c.IssuedAt, nbf |-> c.NotBefore,
     iss |-> CoerceUTF8(c.Issuer), sub |-> CoerceUTF8(c.Subject)]

\* the JWTClaims value that json.Unmarshal reads from a claims object
DecodeClaims(j) ==
    [UserID |-> j.user_id, Description |-> j.description,
     AllowedDomains |-> j.allowed_domains,
     ExpiresAt |-> j.exp, IssuedAt |-> j.iat, NotBefore |-> j.nbf,
     Issuer |-> j.iss, Subject |-> j.sub]

\* the HMAC of the signing string (header and claims segments) under a key
Hmac(key, header, payload) == <<"hmac", key, header, payload>>

Issuer == <<97>>

\* CreateJWT that forgets the AllowedDomains field of the claims
CreateJWT_NoDomains(userID, description, expiresAt, allowedDomains, secret, t) ==
    LET claims == [UserID |-> userID, Description |-> description,
                   AllowedDomains |-> <<>>,
                   ExpiresAt |-> NumericDate(expiresAt),
                   IssuedAt |-> NumericDate(t), NotBefore |-> NumericDate(t),
                   Issuer |-> Issuer, Subject |-> userID]
        header == [alg |-> "HS256", typ |-> "JWT"]
        payload == EncodeClaims(claims)
    IN  [err |-> "none",
         token |-> [segments |-> 3, header |-> header, payload |-> payload,
                    signature |-> Hmac(secret, header, payload)]]

\* CreateJWT called at time t: the signed token (signing has no failing case
\* for a byte-slice key, empty or not)
CreateJWT(userID, description, expiresAt, allowedDomains, secret, t) ==
    LET claims == [UserID |-> userID, Description |-> description,
                   AllowedDomains |-> allowedDomains,
                   ExpiresAt |-> NumericDate(expiresAt),
                   IssuedAt |-> NumericDate(t), NotBefore |-> NumericDate(t),
                   Issuer |-> Issuer, Subject |-> userID]
        header == [alg |-> "HS256", typ |-> "JWT"]
        payload == EncodeClaims(claims)
    IN  [err |-> "none",
         token |-> [segments |-> 3, header |-> header, payload |-> payload,
                    signature |-> Hmac(secret, header, payload)]]

NoClaims == [UserID |-> <<>>]

ParseFailed(why) == [err |-> why, claims |-> NoClaims]

\* claims validation that does not look at exp
ValidateClaims_NoExpiry(c, t) ==
    IF t < c.NotBefore THEN "token-not-valid-yet"
    ELSE "none"

\* the library's claims validation at time t: exp must be after t, nbf not
\* after t (iat, iss, sub and aud are not checked without parser options)
ValidateClaims(c, t) ==
    IF ~(t < c.ExpiresAt) THEN "token-expired"
    ELSE IF t < c.NotBefore THEN "token-not-valid-yet"
    ELSE "none"

\* ValidateJWTWithSecret that does not compare the signature
ValidateJWTWithSecret_NoSignature(tok, secret, t) ==
    IF tok.segments # 3 THEN ParseFailed("malformed")
    ELSE IF tok.header.alg \notin {"HS256", "HS384", "HS512"}
    THEN ParseFailed("unexpected-signing-method")
    ELSE LET claims == DecodeClaims(tok.payload)
         IN  IF ValidateClaims(claims, t) # "none"
             THEN ParseFailed(ValidateClaims(claims, t))
             ELSE [err |-> "none", claims |-> claims]

ValidateJWTWithSecret(tok, secret, t) ==
    IF tok.segments # 3 THEN ParseFailed("malformed")
    ELSE IF tok.header.alg \notin {"HS256", "HS384", "HS512"}
    THEN ParseFailed("unexpected-signing-method")
    ELSE IF tok.signature # Hmac(secret, tok.header, tok.payload)
    THEN ParseFailed("signature-invalid")
    ELSE LET claims == DecodeClaims(tok.payload)
         IN  IF ValidateClaims(claims, t) # "none"
             THEN ParseFailed(ValidateClaims(claims, t))
             ELSE [err |-> "none", claims |-> claims]

\* parseJWTWithoutVerification that verifies the signature under the empty key
parseJWTWithoutVerification_Verifying(tok, t) ==
    ValidateJWTWithSecret(tok, "", t)

parseJWTWithoutVerification(tok, t) ==
    IF tok.segments # 3 THEN ParseFailed("malformed")
    ELSE LET claims == DecodeClaims(tok.payload)
         IN  IF t > claims.ExpiresAt THEN ParseFailed("token-expired")
             ELSE IF claims.UserID = <<>> THEN ParseFailed("user-id-required")
             ELSE IF claims.Description = <<>> THEN ParseFailed("description-required")
             ELSE [err |-> "none", claims |-> claims]

ParseJWTResult(tok, secret, t) ==
    IF secret # "" THEN ValidateJWTWithSecret(tok, secret, t)
    ELSE parseJWTWithoutVerification(tok, t)

----------------------------------------------------------------------------
(* Actions on tokens *)

Tick ==
    /\ now < MaxTime
    /\ now' = now + 1
    /\ UNCHANGED <<req, token, verified, accepted>>
    /\ UNCHANGED <<registryVars, bootVars, sessionVars, processVars>>

Issue ==
    /\ token = NoToken
    /\ LET r == CreateJWT(req.userID, req.description, req.expiresAt,
                          req.allowedDomains, req.key, now)
       IN  token' = IF r.err = "none" THEN r.token ELSE NoToken
    /\ UNCHANGED <<now, req, verified, accepted>>
    /\ UNCHANGED <<registryVars, bootVars, sessionVars, processVars>>

ParseJWT(secret) ==
    /\ token # NoToken
    /\ verified' = [key |-> secret, at |-> now,
                    result |-> ParseJWTResult(token, secret, now)]
    /\ accepted' = IF accepted = NeverAccepted
                       /\ ParseJWTResult(token, secret, now).err = "none"
                    THEN now ELSE accepted
    /\ UNCHANGED <<now, req, token>>
    /\ UNCHANGED <<registryVars, bootVars, sessionVars, processVars>>

JwtInit ==
    /\ RegistryInit
    /\ BootInit
    /\ SessionInit
    /\ ProcessInit
    /\ now = 0
    /\ req \in Requests
    /\ token = NoToken
    /\ verified = NotVerified
    /\ accepted = NeverAccepted

JwtNext ==
    \/ Tick
    \/ Issue
    \/ \E secret \in SigningKeys : ParseJWT(secret)

SpecJwt == JwtInit /\ [][JwtNext]_vars

----------------------------------------------------------------------------
(* Claims about the registry, checked under Spec *)

Claimed(p) == Range(GetDomains(p))

\* C1: any two distinct providers whose Register call returned success have
\* disjoint domain sets, every domain of such a provider is bound to it, and
\* every domain in the domain index is bound to exactly one provider of the
\* provider map.
C1_DisjointDomains ==
    /\ \A p1 \in registered, p2 \in registered :
           p1 # p2 => Claimed(p1) \cap Claimed(p2) = {}
    /\ \A p \in registered : \A d \in Claimed(p) :
           d \in DOMAIN domainMap /\ domainMap[d] = p
    /\ \A d \in DOMAIN domainMap :
           Cardinality({n \in DOMAIN providers : providers[n] = domainMap[d]}) = 1

\* two providers registered with success, each holding a domain
C1_Witness ==
    \E p1 \in registered, p2 \in registered :
        p1 # p2 /\ Claimed(p1) # {} /\ Claimed(p2) # {}

\* C2: a Register call that fails because one of the provider's domains was
\* already claimed before the call leaves the domain index exactly as it was:
\* the same bindings, and ListDomains gives the same set (same count).
C2_FailedRegisterKeepsDomainIndex ==
    [][(/\ last'.op = "Register"
        /\ last'.err = "DuplicateDomain"
        /\ \E d \in Claimed(last'.provider) : d \in DOMAIN domainMap)
           => /\ domainMap' = domainMap
              /\ Cardinality(ListDomains(domainMap')) = Cardinality(ListDomains(domainMap))]_vars

\* C3: a Register call that returns any error leaves the provider-name map
\* unchanged.
C3_FailedRegisterKeepsProviderMap ==
    [][(last'.op = "Register" /\ last'.err # "none")
           => (providers' = providers /\ ListProviders(providers') = ListProviders(providers))]_vars

\* C4: Register of a provider whose name is already present fails with the
\* duplicate-provider error, whatever domains it claims, and leaves both maps
\* unchanged.
C4_DuplicateNameRejected ==
    [][(last'.op = "Register" /\ GetProviderName(last'.provider) \in DOMAIN providers)
           => /\ last'.err = "DuplicateProvider"
              /\ providers' = providers
              /\ domainMap' = domainMap]_vars

\* a duplicate-name Register of a provider different from the one holding the
\* name, with valid credentials and a domain nobody claims
C4_Witness ==
    /\ last.op = "Register"
    /\ last.err = "DuplicateProvider"
    /\ ValidateConfiguration(last.provider)
    /\ providers[GetProviderName(last.provider)] # last.provider
    /\ \E d \in Claimed(last.provider) : d \notin DOMAIN domainMap

\* C5: ResolveDomain(d) returns provider P exactly when P was registered with
\* success with the exact string d among its domains, and fails with the
\* unknown-domain error otherwise.
C5_ResolveExactlyRegistered ==
    last.op = "ResolveDomain" =>
        IF \E p \in registered : last.domain \in Claimed(p)
        THEN /\ last.result.err = "none"
             /\ last.result.provider \in registered
             /\ last.domain \in Claimed(last.result.provider)
        ELSE last.result.err = "UnknownDomain"

\* C6: both maps are append-only: no step removes or rebinds an entry of the
\* provider map or of the domain index.
C6_AppendOnly ==
    [][/\ \A n \in DOMAIN providers :
              n \in DOMAIN providers' /\ providers'[n] = providers[n]
       /\ \A d \in DOMAIN domainMap :
              d \in DOMAIN domainMap' /\ domainMap'[d] = domainMap[d]]_vars

\* a Register call of another provider for a domain that is already bound
C6_Witness ==
    /\ last.op = "Register"
    /\ \E d \in Claimed(last.provider) :
           /\ d \in DOMAIN domainMap
           /\ GetProviderName(domainMap[d]) # GetProviderName(last.provider)

\* C7: Registry.RetrieveCertificate(d) returns the resolution error without
\* invoking a provider when d is not registered; otherwise it invokes
\* RetrieveCertificate(d) once, on the provider ResolveDomain(d) returns, and
\* returns that provider's bytes or that provider's error.
C7_RetrieveComposesResolve ==
    last.op = "RetrieveCertificate" =>
        LET r == last.result
            res == GetProviderForDomain(domainMap, last.domain)
        IN  IF res.err # "none"
            THEN r.err = res.err /\ r.invoked = <<>> /\ r.upstreamCalls = 0
            ELSE LET c == ProviderRetrieve(res.provider, last.domain, last.upstream)
                 IN  /\ r.invoked = <<<<res.provider, last.domain>>>>
                     /\ r.upstreamCalls <= 1
                     /\ r.err = c.err
                     /\ r.cert = c.cert

\* a retrieval that reached the provider and got the upstream's error
C7_Witness ==
    /\ last.op = "RetrieveCertificate"
    /\ last.result.err = "upstream-error"
    /\ Len(last.result.invoked) = 1

----------------------------------------------------------------------------
(* Claims about the bootstrap manager, checked under SpecBoot *)

Ran == initResult # NotRun

\* bootstrap i created its provider and Register accepted it
Activated(i) ==
    /\ i \in Range(initResult.activated)
    /\ GetProviderName(bootstraps[i]) \in DOMAIN providers
    /\ providers[GetProviderName(bootstraps[i])] = CreateProvider(bootstraps[i]).provider

CreateFails(i) ==
    IsConfigured(bootstraps[i]) /\ CreateProvider(bootstraps[i]).err # "none"

\* C8: when no registered bootstrap reports IsConfigured (also when none is
\* registered), InitializeProviders returns the no-providers-configured
\* error, calls CreateProvider on nothing and registers nothing.
C8_NoProvidersConfigured ==
    (Ran /\ \A i \in DOMAIN bootstraps : ~IsConfigured(bootstraps[i]))
        => /\ initResult.err = "NoProvidersConfigured"
           /\ initResult.created = <<>>
           /\ providers = EmptyMap
           /\ domainMap = EmptyMap
           /\ registered = {}

\* InitializeProviders has run over bootstraps none of which is configured
C8_Witness ==
    /\ Ran
    /\ Len(bootstraps) >= 2
    /\ \A i \in DOMAIN bootstraps : ~IsConfigured(bootstraps[i])
    /\ initResult.err = "NoProvidersConfigured"

----------------------------------------------------------------------------
(* Claims about tokens, checked under SpecJwt *)

Abs(x) == IF x < 0 THEN -x ELSE x

\* ParseJWT was called with the key the token was issued with
VerifiedWithIssuingKey ==
    /\ verified # NotVerified
    /\ req.key # ""
    /\ verified.key = req.key

RoundTrips ==
    /\ verified.result.err = "none"
    /\ verified.result.claims.UserID = req.userID
    /\ verified.result.claims.Description = req.description
    /\ verified.result.claims.AllowedDomains = req.allowedDomains
    /\ Abs(verified.result.claims.ExpiresAt - req.expiresAt) <= TicksPerSecond

AllValidUTF8 ==
    /\ CoerceUTF8(req.userID) = req.userID
    /\ CoerceUTF8(req.description) = req.description
    /\ \A i \in DOMAIN req.allowedDomains :
           CoerceUTF8(req.allowedDomains[i]) = req.allowedDomains[i]

\* C10 as stated: for any non-empty key, non-empty userID and description,
\* any list of domain patterns and an expiresAt that is still in the future,
\* Verify(Issue(...), key) succeeds and returns the same userID, description
\* and domain list, with expiresAt equal within one second.
C10_RoundTripAnyInput ==
    (/\ VerifiedWithIssuingKey
     /\ req.userID # <<>>
     /\ req.description # <<>>
     /\ req.expiresAt > verified.at)
        => RoundTrips

\* C10 amended: the round trip holds when userID, description and every
\* domain pattern are valid UTF-8 and expiresAt truncated to whole seconds is
\* still after the time of the verification.
C10_RoundTrip ==
    (/\ VerifiedWithIssuingKey
     /\ req.userID # <<>>
     /\ req.description # <<>>
     /\ AllValidUTF8
     /\ NumericDate(req.expiresAt) > verified.at)
        => RoundTrips

\* a token with a wildcard pattern and a two-byte character in its userID,
\* whose expiresAt is not a whole second, verified after the clock moved
C10_Witness ==
    /\ VerifiedWithIssuingKey
    /\ AllValidUTF8
    /\ req.userID = <<195, 169>>
    /\ req.description # <<>>
    /\ Len(req.allowedDomains) = 2
    /\ NumericDate(req.expiresAt) # req.expiresAt
    /\ NumericDate(req.expiresAt) > verified.at
    /\ verified.at > 0
    /\ RoundTrips

\* the last ParseJWT call was made with a non-empty key
VerifiedWithKey ==
    /\ verified # NotVerified
    /\ verified.key # ""

\* the last ParseJWT call was made with the empty key
ParsedUnverified ==
    /\ verified # NotVerified
    /\ verified.key = ""

Rejected ==
    /\ verified.result.err # "none"
    /\ verified.result.claims = NoClaims

C12_ExpiredRejected ==
    /\ (verified # NotVerified /\ verified.at > req.expiresAt) => Rejected
    /\ (token # NoToken /\ now > req.expiresAt) =>
           \A secret \in SigningKeys : ParseJWTResult(token, secret, now).err # "none"

\* a token that verified with its key is refused for expiry at a later
\* instant, and would be refused with the empty key as well
C12_Witness ==
    /\ VerifiedWithIssuingKey
    /\ accepted # NeverAccepted
    /\ accepted < verified.at
    /\ verified.at > req.expiresAt
    /\ verified.result = ParseFailed("token-expired")
    /\ ParseJWTResult(token, "", verified.at) = ParseFailed("token-expired")

\* C13: Verify with a non-empty key never returns claims whose userID or
\* description is empty, and a correctly signed, unexpired token with an
\* empty user_id or description is refused with the missing-claim error.
C13_KeyedVerifyRequiresClaims ==
    VerifiedWithKey =>
        /\ verified.result.err = "none" =>
               /\ verified.result.claims.UserID # <<>>
               /\ verified.result.claims.Description # <<>>
        /\ (/\ verified.key = req.key
            /\ verified.at < NumericDate(req.expiresAt)
            /\ (req.userID = <<>> \/ req.description = <<>>))
               => verified.result.err \in {"user-id-required", "description-required"}

\* C14: CreateJWT with the empty signing key returns no token.
C14_EmptyKeyRejected ==
    req.key = "" => token = NoToken

\* C15: ParseJWT with the empty key does not look at the signature: it
\* returns the token's claims exactly when the clock is not past the token's
\* exp and user_id and description are not empty, whatever key signed the
\* token, and refuses the token otherwise.
C15_UnverifiedParse ==
    ParsedUnverified =>
        LET claims == DecodeClaims(token.payload)
            sound  == /\ ~(verified.at > claims.ExpiresAt)
                      /\ claims.UserID # <<>>
                      /\ claims.Description # <<>>
        IN  /\ sound => verified.result = [err |-> "none", claims |-> claims]
            /\ ~sound => Rejected
            /\ verified.at > req.expiresAt => Rejected
            /\ (req.userID = <<>> \/ req.description = <<>>) => Rejected

\* a token signed with a non-empty key is accepted by the empty key
C15_Witness ==
    /\ ParsedUnverified
    /\ req.key = "w"
    /\ token.signature # Hmac("", token.header, token.payload)
    /\ verified.result.err = "none"
    /\ verified.result.claims.UserID = req.userID

----------------------------------------------------------------------------
(* Sessions (session/session.go) *)

\* the session clock stops here
MaxClock == 2

\* the 30 minutes a session lasts at most, in half hours
SessionTTL == 1

\* the callers' userID, description and allowedDomains arguments
SessionOwners ==
    {[userID |-> "alice", description |-> "cli",
      allowedDomains |-> <<"a.com", "*.example.com">>],
     [userID |-> "bob", description |-> "", allowedDomains |-> <<>>]}

\* the expireDate arguments: before the creation time, within SessionTTL of
\* it and beyond
ExpireDates == 0 .. MaxClock

\* the IDs a caller can hold: those CreateSession returned, and a made-up one
KnownIDs == {SessionIDs[i] : i \in 1 .. issued} \cup {UnknownID}

\* a generator that hands out the first ID again
NewUUID_Reused(n) ==
    SessionIDs[1]

\* uuid.New().String() when n IDs were handed out before
NewUUID(n) ==
    SessionIDs[n + 1]

\* sm.sessions[id] = session
MapPut(store, id, session) ==
    [j \in DOMAIN store \cup {id} |-> IF j = id THEN session ELSE store[j]]

\* MapDelete that removes nothing
MapDelete_Keep(store, id) ==
    store

\* MapDelete that empties the map
MapDelete_All(store, id) ==
    [j \in {} |-> store[j]]

\* delete(sm.sessions, id)
MapDelete(store, id) ==
    [j \in DOMAIN store \ {id} |-> store[j]]

\* sessionExpiry that is always the caller's expireDate
sessionExpiry_Uncapped(expireDate, t) ==
    expireDate

\* the expiry CreateSession stores for a call made at time t
sessionExpiry(expireDate, t) ==
    IF expireDate < t + SessionTTL THEN expireDate ELSE t + SessionTTL

\* NewSession that drops the caller's domain list
NewSession_NoDomains(id, userID, description, expireDate, allowedDomains, t) ==
    [SessionID |-> id, UserID |-> userID, Description |-> description,
     ExpireDate |-> sessionExpiry(expireDate, t),
     AllowedDomains |-> <<>>,
     CreatedAt |-> t, LastAccessedAt |-> t]

\* the record CreateSession stores under a new ID at time t
NewSession(id, userID, description, expireDate, allowedDomains, t) ==
    [SessionID |-> id, UserID |-> userID, Description |-> description,
     ExpireDate |-> sessionExpiry(expireDate, t),
     AllowedDomains |-> allowedDomains,
     CreatedAt |-> t, LastAccessedAt |-> t]

\* Expired that allows one more clock step
Expired_Late(session, t) ==
    t > session.ExpireDate + 1

\* time.Now().After(session.ExpireDate)
Expired(session, t) ==
    t > session.ExpireDate

\* a history map cut down to the sessions a store holds
Kept(history, store) ==
    [j \in DOMAIN store |-> history[j]]

\* a sweep that removes nothing
Swept_Nothing(store, t) ==
    store

\* a sweep that also removes the sessions expiring at time t
Swept_AtExpiry(store, t) ==
    [j \in {k \in DOMAIN store : t < store[k].ExpireDate} |-> store[j]]

\* the loop of a sweep at time t
Swept(store, t) ==
    [j \in {k \in DOMAIN store : ~Expired(store[k], t)} |-> store[j]]

\* the delete carried out inside GetSession, before its return
goDeleteSession_Inline(store, id) ==
    MapDelete(store, id)

\* `go sm.DeleteSession(sessionID)` inside GetSession: the statement starts
\* the goroutine and goes on; the store is as it was when GetSession returns
goDeleteSession(store, id) ==
    store

\* a GetSession that renews the session: the expiry moves with the access
SetLastAccessedAt_Sliding(session, stamp) ==
    [session EXCEPT !.LastAccessedAt = stamp, !.ExpireDate = stamp + SessionTTL]

\* session.LastAccessedAt = time.Now()
SetLastAccessedAt(session, stamp) ==
    [session EXCEPT !.LastAccessedAt = stamp]

\* some GetSession call holds sm.mutex for reading
ReadLocked == \E t \in Threads : reading[t] # Idle

----------------------------------------------------------------------------
(* Actions on sessions.  CreateSession, DeleteSession and the sweeps hold   *)
(* sm.mutex exclusively from their first statement to their return, so     *)
(* each is one step, taken when no reader holds the lock.  GetSession holds *)
(* the lock for reading: its lookup and expiry test are one step, and for a *)
(* live session its write of LastAccessedAt and return are a second step,   *)
(* between which other readers and the clock may move.                      *)

AdvanceClock ==
    /\ clock < MaxClock
    /\ clock' = clock + 1
    /\ UNCHANGED <<sessions, issued, reading, evictions, creations, deleted, lastGet>>
    /\ UNCHANGED <<registryVars, bootVars, jwtVars, processVars>>

CreateSession(userID, description, expireDate, allowedDomains) ==
    /\ ~ReadLocked
    /\ issued < Len(SessionIDs)
    /\ LET sessionID == NewUUID(issued)
       IN  /\ sessions' = MapPut(sessions, sessionID,
                                 NewSession(sessionID, userID, description,
                                            expireDate, allowedDomains, clock))
           /\ creations' = MapPut(creations, sessionID,
                                  [userID |-> userID, description |-> description,
                                   expireDate |-> expireDate,
                                   allowedDomains |-> allowedDomains, at |-> clock])
    /\ issued' = issued + 1
    /\ UNCHANGED <<clock, reading, evictions, deleted, lastGet>>
    /\ UNCHANGED <<registryVars, bootVars, jwtVars, processVars>>

\* GetSession up to its return for a missing or expired session, or up to
\* the expiry test for a live one
GetSession(t, sessionID) ==
    /\ reading[t] = Idle
    /\ sessionID \in KnownIDs
    /\ IF sessionID \notin DOMAIN sessions
       THEN /\ lastGet' = [id |-> sessionID, found |-> FALSE]
            /\ UNCHANGED <<sessions, reading, evictions>>
       ELSE IF Expired(sessions[sessionID], clock)
       THEN /\ evictions' = evictions \cup {sessionID}
            /\ sessions' = goDeleteSession(sessions, sessionID)
            /\ lastGet' = [id |-> sessionID, found |-> FALSE]
            /\ UNCHANGED reading
       ELSE /\ reading' = [reading EXCEPT ![t] = [id |-> sessionID, at |-> clock]]
            /\ UNCHANGED <<sessions, evictions, lastGet>>
    /\ UNCHANGED <<clock, issued, creations, deleted>>
    /\ UNCHANGED <<registryVars, bootVars, jwtVars, processVars>>

\* the rest of GetSession for a live session: the write of LastAccessedAt,
\* which is not ordered with the write of another reader of the same record
\* and then leaves any time value, and the return of the stored record
GetSessionReturn(t) ==
    /\ reading[t] # Idle
    /\ LET sessionID == reading[t].id
           raced == \E u \in Threads \ {t} : reading[u].id = sessionID
       IN  /\ \E stamp \in (IF raced THEN 0 .. MaxClock ELSE {clock}) :
                  sessions' = [sessions EXCEPT ![sessionID] =
                                   SetLastAccessedAt(sessions[sessionID], stamp)]
           /\ lastGet' = [id |-> sessionID, found |-> TRUE]
    /\ reading' = [reading EXCEPT ![t] = Idle]
    /\ UNCHANGED <<clock, issued, evictions, creations, deleted>>
    /\ UNCHANGED <<registryVars, bootVars, jwtVars, processVars>>

DeleteSession(sessionID) ==
    /\ ~ReadLocked
    /\ sessionID \in KnownIDs
    /\ sessions' = MapDelete(sessions, sessionID)
    /\ creations' = Kept(creations, sessions')
    /\ deleted' = deleted \cup ({sessionID} \ {UnknownID})
    /\ UNCHANGED <<clock, issued, reading, evictions, lastGet>>
    /\ UNCHANGED <<registryVars, bootVars, jwtVars, processVars>>

\* the goroutine GetSession starts for an expired session
AsyncDeleteSession(sessionID) ==
    /\ ~ReadLocked
    /\ sessionID \in evictions
    /\ sessions' = MapDelete(sessions, sessionID)
    /\ evictions' = evictions \ {sessionID}
    /\ creations' = Kept(creations, sessions')
    /\ deleted' = deleted \cup {sessionID}
    /\ UNCHANGED <<clock, issued, reading, lastGet>>
    /\ UNCHANGED <<registryVars, bootVars, jwtVars, processVars>>

CleanupExpiredSessions ==
    /\ ~ReadLocked
    /\ sessions' = Swept(sessions, clock)
    /\ creations' = Kept(creations, sessions')
    /\ UNCHANGED <<clock, issued, reading, evictions, deleted, lastGet>>
    /\ UNCHANGED <<registryVars, bootVars, jwtVars, processVars>>

\* one round of the background loop
cleanupExpiredSessions ==
    /\ ~ReadLocked
    /\ sessions' = Swept(sessions, clock)
    /\ creations' = Kept(creations, sessions')
    /\ UNCHANGED <<clock, issued, reading, evictions, deleted, lastGet>>
    /\ UNCHANGED <<registryVars, bootVars, jwtVars, processVars>>

SessionNext ==
    \/ AdvanceClock
    \/ \E owner \in SessionOwners, expireDate \in ExpireDates :
           CreateSession(owner.userID, owner.description, expireDate,
                         owner.allowedDomains)
    \/ \E t \in Threads, sessionID \in KnownIDs : GetSession(t, sessionID)
    \/ \E t \in Threads : GetSessionReturn(t)
    \/ \E sessionID \in KnownIDs : DeleteSession(sessionID)
    \/ \E sessionID \in evictions : AsyncDeleteSession(sessionID)
    \/ CleanupExpiredSessions
    \/ cleanupExpiredSessions

SpecSession == Init /\ [][SessionNext]_vars

----------------------------------------------------------------------------
(* Claims about sessions, checked under SpecSession *)

Min(a, b) == IF a <= b THEN a ELSE b

\* the stored record carries the userID, description and allowedDomains of
\* the CreateSession call that stored it
SameData(session, call) ==
    /\ session.UserID = call.userID
    /\ session.Description = call.description
    /\ session.AllowedDomains = call.allowedDomains

\* C16: every stored session's expiry is min(callerExpiry, creationTime +
\* SessionTTL): never after the caller's expiry, never more than SessionTTL
\* after its creation, and the caller's expiry itself when that is already
\* in the past.
C16_EffectiveExpiry ==
    \A id \in DOMAIN sessions :
        LET call == creations[id]
            session == sessions[id]
        IN  /\ session.CreatedAt = call.at
            /\ session.ExpireDate = Min(call.expireDate, call.at + SessionTTL)
            /\ session.ExpireDate <= call.expireDate
            /\ session.ExpireDate <= session.CreatedAt + SessionTTL
            /\ call.expireDate < call.at => session.ExpireDate = call.expireDate

\* one session capped at SessionTTL, another created with a past expiry
C16_Witness ==
    /\ DOMAIN sessions = {"s1", "s2"}
    /\ creations["s1"].expireDate > creations["s1"].at + SessionTTL
    /\ sessions["s1"].ExpireDate = sessions["s1"].CreatedAt + SessionTTL
    /\ creations["s2"].expireDate < creations["s2"].at
    /\ sessions["s2"].ExpireDate = creations["s2"].expireDate

\* C17: a GetSession call returns a session only if its expiry is not before
\* the time the call read, and never one created with an expiry in the past;
\* a call that finds a stored session expired reports not-found, although
\* the entry is still in the store.
C17_ExpiredNeverReturned ==
    [][\A t \in Threads :
          /\ GetSessionReturn(t) =>
                 /\ ~(sessions[reading[t].id].ExpireDate < reading[t].at)
                 /\ ~(creations[reading[t].id].expireDate < creations[reading[t].id].at)
          /\ \A id \in DOMAIN sessions :
                 (GetSession(t, id) /\ sessions[id].ExpireDate < clock) =>
                     /\ lastGet' = [id |-> id, found |-> FALSE]
                     /\ reading' = reading]_vars

\* a session created with a past expiry was asked for and not returned; its
\* entry is still in the store and its eviction has not run yet
C17_Witness ==
    /\ lastGet = [id |-> "s1", found |-> FALSE]
    /\ "s1" \in DOMAIN sessions
    /\ "s1" \in evictions
    /\ creations["s1"].expireDate < creations["s1"].at
    /\ sessions["s1"].ExpireDate < clock

\* C18: a session leaves the store only through DeleteSession of its own ID
\* or once its expiry has passed; GetSession of a stored session whose
\* expiry has not passed goes on to return it; and the record it returns
\* carries the userID, description and allowedDomains of the CreateSession
\* call that returned the ID, whatever was done to other sessions.
C18_GetReturnsCreated ==
    [][/\ \A id \in DOMAIN sessions \ DOMAIN sessions' :
              id \in deleted' \/ sessions[id].ExpireDate < clock
       /\ \A id \in DOMAIN sessions' : SameData(sessions'[id], creations'[id])
       /\ \A t \in Threads :
              /\ \A id \in DOMAIN sessions :
                     (GetSession(t, id) /\ ~(sessions[id].ExpireDate < clock)) =>
                         reading' = [reading EXCEPT ![t] = [id |-> id, at |-> clock]]
              /\ GetSessionReturn(t) =>
                     /\ lastGet' = [id |-> reading[t].id, found |-> TRUE]
                     /\ reading[t].id \in DOMAIN sessions'
                     /\ SameData(sessions'[reading[t].id], creations[reading[t].id])]_vars

\* the second session was returned with its own data after the first one,
\* created for another caller, was deleted
C18_Witness ==
    /\ lastGet = [id |-> "s2", found |-> TRUE]
    /\ "s1" \in deleted
    /\ "s2" \in DOMAIN sessions
    /\ sessions["s2"].UserID = "bob"
    /\ sessions["s2"].LastAccessedAt > sessions["s2"].CreatedAt
    /\ SameData(sessions["s2"], creations["s2"])

\* C19: an ID for which DeleteSession has returned is never in the store
\* again, and every later GetSession of it reports not-found.
C19_DeletedStaysDeleted ==
    [][/\ deleted' \cap DOMAIN sessions' = {}
       /\ \A t \in Threads :
              /\ \A id \in deleted :
                     GetSession(t, id) =>
                         /\ lastGet' = [id |-> id, found |-> FALSE]
                         /\ reading' = reading
              /\ GetSessionReturn(t) => reading[t].id \notin deleted]_vars

\* at clock 0 nothing has expired: the first session was deleted and asked
\* for afterwards, while a session created later is in the store
C19_Witness ==
    /\ clock = 0
    /\ "s1" \in deleted
    /\ lastGet = [id |-> "s1", found |-> FALSE]
    /\ "s2" \in DOMAIN sessions

\* C20: a DeleteSession call, the caller's or the one GetSession started,
\* removes its ID and nothing else, changes nothing when the ID is not in
\* the store, and leaves a store that a second call would not change.
C20_DeleteIdempotent ==
    [][\A id \in KnownIDs :
          (DeleteSession(id) \/ AsyncDeleteSession(id)) =>
              /\ DOMAIN sessions' = DOMAIN sessions \ {id}
              /\ \A other \in DOMAIN sessions \ {id} : sessions'[other] = sessions[other]
              /\ id \notin DOMAIN sessions => sessions' = sessions
              /\ MapDelete(sessions', id) = sessions']_vars

\* the first session was deleted, the made-up ID was asked for in vain, and
\* the second session is still stored
C20_Witness ==
    /\ deleted = {"s1"}
    /\ "s1" \notin DOMAIN sessions
    /\ "s2" \in DOMAIN sessions
    /\ lastGet = [id |-> UnknownID, found |-> FALSE]

\* C21: a sweep, called or by the background loop, removes every session
\* whose expiry is before the sweep's time and no other; the sessions it
\* leaves are unchanged and not expired, so GetSession still returns them.
C21_SweepRemovesExpiredOnly ==
    [][(CleanupExpiredSessions \/ cleanupExpiredSessions) =>
          /\ DOMAIN sessions' \subseteq DOMAIN sessions
          /\ \A id \in DOMAIN sessions :
                 IF sessions[id].ExpireDate < clock
                 THEN id \notin DOMAIN sessions'
                 ELSE /\ id \in DOMAIN sessions'
                      /\ sessions'[id] = sessions[id]
                      /\ ~Expired(sessions'[id], clock')
                      /\ SameData(sessions'[id], creations'[id])]_vars

\* the first session is gone without any DeleteSession, so a sweep removed
\* it; the second, created before that sweep and expiring now, is still
\* stored and was returned by GetSession at the present time
C21_Witness ==
    /\ issued = 2
    /\ "s1" \notin DOMAIN sessions
    /\ "s1" \notin deleted
    /\ "s2" \in DOMAIN sessions
    /\ sessions["s2"].CreatedAt = 0
    /\ sessions["s2"].ExpireDate = clock
    /\ sessions["s2"].LastAccessedAt = clock
    /\ lastGet = [id |-> "s2", found |-> TRUE]

\* C22: every CreateSession call, whichever thread makes it and whatever
\* ran before, stores its session under an ID no earlier call returned and
\* no stored session has: it adds that one entry, carrying its own ID and
\* arguments, and changes or removes no other entry.
C22_UniqueSessionIDs ==
    [][issued' = issued + 1 =>
          \E id \in DOMAIN sessions' :
              /\ id \notin DOMAIN sessions
              /\ id \notin KnownIDs
              /\ id \in KnownIDs'
              /\ DOMAIN sessions' = DOMAIN sessions \cup {id}
              /\ \A other \in DOMAIN sessions : sessions'[other] = sessions[other]
              /\ sessions'[id].SessionID = id
              /\ SameData(sessions'[id], creations'[id])]_vars

\* two sessions of different callers are stored side by side under their
\* own IDs, and the first was returned by GetSession after the second call
C22_Witness ==
    /\ DOMAIN sessions = {"s1", "s2"}
    /\ sessions["s1"].SessionID = "s1"
    /\ sessions["s2"].SessionID = "s2"
    /\ sessions["s1"].UserID # sessions["s2"].UserID
    /\ sessions["s1"].LastAccessedAt > sessions["s2"].CreatedAt
    /\ lastGet = [id |-> "s1", found |-> TRUE]

----------------------------------------------------------------------------
(* The global session manager (session/session.go, GetGlobalSessionManager). *)
(* The function takes no lock: its test of the package variable, its       *)
(* NewSessionManager call with the assignment, and its final read are      *)
(* separate steps of the calling thread.                                    *)

\* if globalSessionManager == nil
GlobalCheck(t) ==
    /\ callPC[t] = "idle"
    /\ callPC' = [callPC EXCEPT ![t] =
                      IF globalSessionManager = 0 THEN "create" ELSE "return"]
    /\ UNCHANGED <<globalSessionManager, instances, obtained, stores>>
    /\ UNCHANGED <<lockVars, startVars, waitVars, retrieveVars>>
    /\ UNCHANGED <<registryVars, bootVars, jwtVars, sessionVars>>

\* globalSessionManager = NewSessionManager()
GlobalCreate(t) ==
    /\ callPC[t] = "create"
    /\ instances' = instances + 1
    /\ globalSessionManager' = instances + 1
    /\ stores' = Append(stores, {})
    /\ callPC' = [callPC EXCEPT ![t] = "return"]
    /\ UNCHANGED obtained
    /\ UNCHANGED <<lockVars, startVars, waitVars, retrieveVars>>
    /\ UNCHANGED <<registryVars, bootVars, jwtVars, sessionVars>>

\* return globalSessionManager
GlobalReturn(t) ==
    /\ callPC[t] = "return"
    /\ obtained' = [obtained EXCEPT ![t] = globalSessionManager]
    /\ callPC' = [callPC EXCEPT ![t] = "idle"]
    /\ UNCHANGED <<globalSessionManager, instances, stores>>
    /\ UNCHANGED <<lockVars, startVars, waitVars, retrieveVars>>
    /\ UNCHANGED <<registryVars, bootVars, jwtVars, sessionVars>>

\* a thread creates a session through the instance its call returned
CreateThroughGlobal(t) ==
    /\ callPC[t] = "idle"
    /\ obtained[t] # 0
    /\ stores' = [stores EXCEPT ![obtained[t]] = @ \cup {t}]
    /\ UNCHANGED <<globalSessionManager, instances, callPC, obtained>>
    /\ UNCHANGED <<lockVars, startVars, waitVars, retrieveVars>>
    /\ UNCHANGED <<registryVars, bootVars, jwtVars, sessionVars>>

SingletonNext ==
    \/ \E t \in Threads : GlobalCheck(t)
    \/ \E t \in Threads : GlobalCreate(t)
    \/ \E t \in Threads : GlobalReturn(t)
    \/ \E t \in Threads : CreateThroughGlobal(t)

SpecSingleton == Init /\ [][SingletonNext]_vars

\* C23: all GetGlobalSessionManager calls return the same instance, so a
\* session a thread created through its call's result is in the store of
\* the instance any other thread's call returned.
C23_OneGlobalManager ==
    \A t \in Threads, u \in Threads :
        (obtained[t] # 0 /\ obtained[u] # 0) =>
            /\ obtained[t] = obtained[u]
            /\ t \in stores[obtained[t]] => t \in stores[obtained[u]]

----------------------------------------------------------------------------
(* Further claims about the registry, checked under Spec *)

\* the domains of p that another provider holds in the index dm
HeldByOthers(dm, p) ==
    {d \in Claimed(p) : d \in DOMAIN dm /\ GetProviderName(dm[d]) # GetProviderName(p)}

\* C24: Register validates the provider's configuration only when there is
\* no name conflict and no domain conflict: the invalid-configuration error
\* is never returned for a provider with a domain another provider holds; a
\* new name with such a domain and an invalid configuration gets the
\* duplicate-domain error.
C24_ConflictsBeforeValidation ==
    [][last'.op = "Register" =>
          /\ last'.err = "InvalidConfiguration" =>
                 HeldByOthers(domainMap, last'.provider) = {}
          /\ (/\ GetProviderName(last'.provider) \notin DOMAIN providers
              /\ HeldByOthers(domainMap, last'.provider) # {}
              /\ ~ValidateConfiguration(last'.provider))
                 => last'.err = "DuplicateDomain"]_vars

\* C25: a provider with a new name and a valid configuration, none of whose
\* domains is in the index, is registered with success and holds each of its
\* domains afterwards, also when its list names a domain twice.
C25_OwnRepeatAccepted ==
    [][(/\ last'.op = "Register"
        /\ GetProviderName(last'.provider) \notin DOMAIN providers
        /\ ValidateConfiguration(last'.provider)
        /\ Claimed(last'.provider) \cap DOMAIN domainMap = {})
           => /\ last'.err = "none"
              /\ \A d \in Claimed(last'.provider) :
                     d \in DOMAIN domainMap' /\ domainMap'[d] = last'.provider]_vars

----------------------------------------------------------------------------
(* The registry under its lock (cert/registry/registry.go).  Register holds *)
(* r.mu exclusively from its first statement to its return and writes the  *)
(* maps one entry at a time; every lookup and listing holds r.mu shared    *)
(* for its whole body.                                                      *)

\* RLock that does not wait for the writer
CanRead_NoLock(w) ==
    TRUE

\* r.mu.RLock() returns: no Register call holds the lock
CanRead(w) ==
    w = NoWriter

\* Register up to the insertion into the provider map, or to its return on
\* a name conflict or an invalid configuration
LockedRegisterBegin(p) ==
    /\ writer = NoWriter
    /\ IF GetProviderName(p) \in DOMAIN providers
       THEN /\ last' = [op |-> "Register", provider |-> p, err |-> "DuplicateProvider"]
            /\ UNCHANGED <<providers, writer>>
       ELSE IF ~ValidateConfiguration(p)
       THEN /\ last' = [op |-> "Register", provider |-> p, err |-> "InvalidConfiguration"]
            /\ UNCHANGED <<providers, writer>>
       ELSE /\ providers' = (GetProviderName(p) :> p) @@ providers
            /\ writer' = [at |-> 1, provider |-> p]
            /\ UNCHANGED last
    /\ UNCHANGED <<domainMap, registered, seen>>
    /\ UNCHANGED <<bootVars, jwtVars, sessionVars, singletonVars, startVars, waitVars, retrieveVars>>

\* one round of the loop over the provider's domains, or the return after it
LockedRegisterClaim ==
    /\ writer # NoWriter
    /\ LET p == writer.provider
           ds == GetDomains(p)
       IN  IF writer.at > Len(ds)
           THEN /\ registered' = registered \cup {p}
                /\ last' = [op |-> "Register", provider |-> p, err |-> "none"]
                /\ writer' = NoWriter
                /\ UNCHANGED domainMap
           ELSE IF ds[writer.at] \in DOMAIN domainMap
           THEN /\ last' = [op |-> "Register", provider |-> p, err |-> "DuplicateDomain"]
                /\ writer' = NoWriter
                /\ UNCHANGED <<domainMap, registered>>
           ELSE /\ domainMap' = (ds[writer.at] :> p) @@ domainMap
                /\ writer' = [writer EXCEPT !.at = @ + 1]
                /\ UNCHANGED <<registered, last>>
    /\ UNCHANGED <<providers, seen>>
    /\ UNCHANGED <<bootVars, jwtVars, sessionVars, singletonVars, startVars, waitVars, retrieveVars>>

\* a lookup or listing: what it returns is read from the two maps as they
\* are while it holds the lock
LockedRead ==
    /\ CanRead(writer)
    /\ seen' = [read |-> TRUE, providers |-> providers, domainMap |-> domainMap]
    /\ UNCHANGED <<registryVars, writer>>
    /\ UNCHANGED <<bootVars, jwtVars, sessionVars, singletonVars, startVars, waitVars, retrieveVars>>

LockNext ==
    \/ \E p \in ProviderObjects : LockedRegisterBegin(p)
    \/ LockedRegisterClaim
    \/ LockedRead

SpecLock == Init /\ [][LockNext]_vars

\* what the six read methods return from the maps pm and dm
ReadResults(pm, dm) ==
    [ResolveDomain |-> [d \in LookupDomains |-> GetProviderForDomain(dm, d)],
     GetProvider |-> [n \in ProviderNames |-> GetProvider(pm, n)],
     ListDomains |-> ListDomains(dm),
     ListProviders |-> ListProviders(pm)]

\* a read saw nothing of provider p
SeesNone(r, p) ==
    /\ GetProviderName(p) \notin r.ListProviders
    /\ r.GetProvider[GetProviderName(p)].err # "none"
    /\ \A d \in Claimed(p) : d \notin r.ListDomains /\ r.ResolveDomain[d].err # "none"

\* a read saw p under its name and every domain of p bound to p
SeesAll(r, p) ==
    /\ GetProviderName(p) \in r.ListProviders
    /\ r.GetProvider[GetProviderName(p)].provider = p
    /\ \A d \in Claimed(p) : d \in r.ListDomains /\ r.ResolveDomain[d].provider = p

\* C26: whatever a lookup or listing returned, for every provider whose
\* Register call succeeded, before or after that read, it showed either
\* nothing of the provider or its name with all of its domains.
C26_RegisterSeenAtomically ==
    seen # NotSeen =>
        \A p \in registered :
            LET r == ReadResults(seen.providers, seen.domainMap)
            IN  SeesNone(r, p) \/ SeesAll(r, p)

\* a read made before a Register call that succeeded later and claimed two
\* domains: it saw nothing of the provider, while another provider was there
C26_Witness ==
    /\ seen # NotSeen
    /\ seen.providers # EmptyMap
    /\ \E p \in registered :
           /\ Len(GetDomains(p)) = 2
           /\ Cardinality(Claimed(p)) = 2
           /\ SeesNone(ReadResults(seen.providers, seen.domainMap), p)
           /\ SeesAll(ReadResults(providers, domainMap), p)

----------------------------------------------------------------------------
(* Retrievals through the registry while the upstream call is in progress  *)
(* (registry.go:104-111).  RetrieveCertificate takes no lock of its own:    *)
(* its lookup is GetProviderForDomain, which holds r.mu shared from its     *)
(* first statement to its return; the provider's call comes after that      *)
(* return and may last any time, or never end.                              *)

\* a retrieval that keeps r.mu shared until the provider's call has returned
RetrievalLocks_Held(calls) ==
    {t \in DOMAIN calls : calls[t] # NoUpstream}

\* the threads that hold r.mu shared on behalf of a retrieval that is in the
\* provider's call: GetProviderForDomain unlocked at its return
RetrievalLocks(calls) ==
    {}

\* r.mu.Lock() returns: no Register call and no reader holds the lock
CanWrite(w, calls) ==
    w = NoWriter /\ RetrievalLocks(calls) = {}

\* the providers registered while retrievals are made: valid credentials,
\* one or both of the domains
RetrieveProviders ==
    [name : ProviderNames,
     domains : {<<"a.com">>, <<"*.example.com">>, <<"a.com", "*.example.com">>},
     apiKey : {"key"}, secretKey : {"secret"}]

\* Register while retrievals may be in the provider's call
RegisterBegin(p) ==
    /\ CanWrite(writer, upstream)
    /\ LockedRegisterBegin(p)

\* Registry.RetrieveCertificate up to the provider's call, or to its return
\* for a domain that is not in the index
RetrieveLookup(t, d) ==
    /\ upstream[t] = NoUpstream
    /\ CanRead(writer)
    /\ LET r == GetProviderForDomain(domainMap, d)
       IN  IF r.err # "none"
           THEN /\ last' = [op |-> "RetrieveCertificate", domain |-> d, upstream |-> "none",
                            result |-> [err |-> r.err, cert |-> <<>>, invoked |-> <<>>,
                                        upstreamCalls |-> 0]]
                /\ UNCHANGED upstream
           ELSE /\ upstream' = [upstream EXCEPT ![t] = [domain |-> d, provider |-> r.provider]]
                /\ UNCHANGED last
    /\ UNCHANGED <<providers, domainMap, registered>>
    /\ UNCHANGED <<bootVars, jwtVars, sessionVars, singletonVars, lockVars, startVars,
                   waitVars>>

\* the provider's call returns, and Registry.RetrieveCertificate with it
RetrieveReturn(t, up) ==
    /\ upstream[t] # NoUpstream
    /\ LET c == ProviderRetrieve(upstream[t].provider, upstream[t].domain, up)
       IN  last' = [op |-> "RetrieveCertificate", domain |-> upstream[t].domain,
                    upstream |-> up,
                    result |-> [err |-> c.err, cert |-> c.cert,
                                invoked |-> <<<<upstream[t].provider, upstream[t].domain>>>>,
                                upstreamCalls |-> c.upstreamCalls]]
    /\ upstream' = [upstream EXCEPT ![t] = NoUpstream]
    /\ UNCHANGED <<providers, domainMap, registered>>
    /\ UNCHANGED <<bootVars, jwtVars, sessionVars, singletonVars, lockVars, startVars,
                   waitVars>>

\* GetProviderForDomain called by another thread
ConcurrentResolveDomain(d) ==
    /\ CanRead(writer)
    /\ ResolveDomain(d)

\* ListProviders and ListDomains called by another thread
ConcurrentListing ==
    /\ CanRead(writer)
    /\ Listing

RetrieveNext ==
    \/ \E p \in RetrieveProviders : RegisterBegin(p)
    \/ LockedRegisterClaim
    \/ \E d \in LookupDomains : ConcurrentResolveDomain(d)
    \/ ConcurrentListing
    \/ \E t \in Threads, d \in LookupDomains : RetrieveLookup(t, d)
    \/ \E t \in Threads, up \in UpstreamOutcomes : RetrieveReturn(t, up)

SpecRetrieve == Init /\ [][RetrieveNext]_vars

\* C39: while retrievals are in the provider's call, however many and for
\* however long, the registry lock is held by none of them: a Register call
\* starts when no other Register holds the lock, a Register in progress goes
\* on, and lookups, listings and the lookups of further retrievals get the
\* lock when no Register holds it.
C39_UpstreamCallOutsideLock ==
    (\E t \in Threads : upstream[t] # NoUpstream) =>
        /\ writer = NoWriter => \A p \in RetrieveProviders : ENABLED RegisterBegin(p)
        /\ writer # NoWriter => ENABLED LockedRegisterClaim
        /\ writer = NoWriter =>
               /\ ENABLED ConcurrentListing
               /\ \A d \in LookupDomains : ENABLED ConcurrentResolveDomain(d)
               /\ \A t \in Threads, d \in LookupDomains :
                      upstream[t] = NoUpstream => ENABLED RetrieveLookup(t, d)

\* a retrieval is in the provider's call; the Register call of another
\* provider, begun after the retrieval's lookup, is inserting its domains;
\* the listing made last, before that Register call, showed the retrieval's
\* provider
C39_Witness ==
    /\ writer # NoWriter
    /\ last.op = "List"
    /\ \E t \in Threads :
           /\ upstream[t] # NoUpstream
           /\ upstream[t].provider # writer.provider
           /\ upstream[t].provider.name \in last.names
           /\ \A u \in Threads \ {t} : upstream[u] = NoUpstream

----------------------------------------------------------------------------
(* Domain listings (registry.go:113-139, porkbun/client.go:205-233),       *)
(* checked under Spec.                                                      *)

\* Provider.ListDomainInfo: one entry for each element of the provider's
\* domain list, in the order of the list
ListDomainInfo(p) ==
    [i \in DOMAIN GetDomains(p) |->
        [Name |-> GetDomains(p)[i], Provider |-> GetProviderName(p)]]

\* ListAllDomainInfo: the entries of every provider in the provider map; the
\* order of the result follows the map iteration and is not fixed, so the
\* result is given as the number of times each entry occurs in it
ListAllDomainInfo(pm) ==
    LET entries == UNION {Range(ListDomainInfo(pm[n])) : n \in DOMAIN pm}
        times(n, e) == Cardinality({i \in DOMAIN ListDomainInfo(pm[n]) :
                                        ListDomainInfo(pm[n])[i] = e})
        sum[ns \in SUBSET DOMAIN pm, e \in entries] ==
            IF ns = {} THEN 0
            ELSE LET n == CHOOSE x \in ns : TRUE
                 IN  times(n, e) + sum[ns \ {n}, e]
    IN  [e \in entries |-> sum[DOMAIN pm, e]]

\* number of entries of the listing that are about domain d
EntriesFor(infos, d) ==
    LET about == {e \in DOMAIN infos : e.Name = d}
        sum[es \in SUBSET about] ==
            IF es = {} THEN 0
            ELSE LET e == CHOOSE x \in es : TRUE
                 IN  infos[e] + sum[es \ {e}]
    IN  sum[about]

\* C27: in every registry state ListAllDomainInfo has exactly one entry for
\* each domain of ListDomains, no entry for another domain, and each entry
\* names the provider that ResolveDomain returns for its domain.
C27_InfoMatchesIndex ==
    LET infos == ListAllDomainInfo(providers)
    IN  /\ \A d \in ListDomains(domainMap) : EntriesFor(infos, d) = 1
        /\ \A e \in DOMAIN infos :
               /\ e.Name \in ListDomains(domainMap)
               /\ GetProviderForDomain(domainMap, e.Name).err = "none"
               /\ e.Provider = GetProviderName(GetProviderForDomain(domainMap, e.Name).provider)

----------------------------------------------------------------------------
(* A further claim about InitializeProviders, checked under SpecBoot *)

\* the names of the bootstraps that report IsConfigured
ConfiguredNames ==
    {GetProviderName(bootstraps[i]) :
        i \in {j \in DOMAIN bootstraps : IsConfigured(bootstraps[j])}}

\* provider p is in the registry with a domain that resolves to it
Resolvable(p) ==
    /\ GetProviderName(p) \in DOMAIN providers
    /\ providers[GetProviderName(p)] = p
    /\ \E d \in Claimed(p) :
           /\ GetProviderForDomain(domainMap, d).err = "none"
           /\ GetProviderForDomain(domainMap, d).provider = p

\* C28: when InitializeProviders returns success, the provider names of the
\* registry are exactly the names of the bootstraps that report
\* IsConfigured, CreateProvider was called on no other bootstrap, and some
\* registered provider has a domain that resolves to it.
C28_SuccessMeansConfiguredSet ==
    (Ran /\ initResult.err = "none")
        => /\ ListProviders(providers) = ConfiguredNames
           /\ \A i \in Range(initResult.created) : IsConfigured(bootstraps[i])
           /\ \E p \in registered : Resolvable(p)

\* InitializeProviders succeeded over a configured bootstrap and one that is
\* not configured
C28_Witness ==
    /\ Ran
    /\ initResult.err = "none"
    /\ \E i \in DOMAIN bootstraps : ~IsConfigured(bootstraps[i])
    /\ \E i \in DOMAIN bootstraps : Activated(i) /\ Resolvable(providers[GetProviderName(bootstraps[i])])

----------------------------------------------------------------------------
(* Process start (cmd/root.go, cert/init.go, the command bodies in cmd):   *)
(* the package init function, the root command's PersistentPreRunE and     *)
(* the RunE of the command that was asked for.  The registry and the       *)
(* bootstrap manager of the process are the variables providers,           *)
(* domainMap, registered and bootstraps.                                    *)

MaxSystemCalls == 3

Program == "go-cert-provider"

\* the command paths of the program
CommandPaths ==
    {<<Program, "jwt", "create-token">>, <<Program, "version">>,
     <<Program, "certs", "retrieve">>, <<Program, "certs", "serve">>,
     <<Program, "domain", "list">>}

skipCommands ==
    {<<Program, "jwt">>, <<Program, "version">>, <<Program, "help">>,
     <<Program, "completion">>}

\* cmdPath[:len(skipCmd)] == skipCmd
HasPrefix(path, prefix) ==
    /\ Len(path) >= Len(prefix)
    /\ SubSeq(path, 1, Len(prefix)) = prefix

skipProviderInit(path) ==
    \E skipCmd \in skipCommands : HasPrefix(path, skipCmd)

\* porkbun.NewBootstrap(): no flag is set yet
NewBootstrap ==
    [name |-> "porkbun", apiKey |-> "", secretKey |-> "", domainsStr |-> <<>>,
     upstream |-> Unreachable]

\* the porkbun flags and environment of a run, and the account behind them
PorkbunSettings == {b \in BootstrapObjects : b.name = "porkbun"}

\* the test that lets InitializeCertificateSystem build a new pair at every call
AlreadyInitialized_Never(reg, mgr) ==
    FALSE

\* globalProviderRegistry != nil && globalBootstrapManager != nil
AlreadyInitialized(reg, mgr) ==
    reg # 0 /\ mgr # 0

\* InitializeCertificateSystem: the package variables and the contents of the
\* registry and the manager they point to after the call, and the pair returned
InitializeCertificateSystem(reg, mgr, made, pm, dm, done, bs) ==
    IF AlreadyInitialized(reg, mgr)
    THEN [registry |-> reg, manager |-> mgr, systems |-> made, providers |-> pm,
          domainMap |-> dm, registered |-> done, bootstraps |-> bs]
    ELSE [registry |-> made + 1, manager |-> made + 1, systems |-> made + 1,
          providers |-> EmptyMap, domainMap |-> EmptyMap, registered |-> {},
          bootstraps |-> <<NewBootstrap>>]

\* the package variables and the process's registry and manager after a call
SystemAfter(sys) ==
    /\ globalProviderRegistry' = sys.registry
    /\ globalBootstrapManager' = sys.manager
    /\ systems' = sys.systems
    /\ returned' = Append(returned, <<sys.registry, sys.manager>>)

\* func init() of package cmd: InitializeCertificateSystem(rootCmd), RegisterFlags
PackageInit ==
    /\ phase = "loaded"
    /\ LET sys == InitializeCertificateSystem(globalProviderRegistry, globalBootstrapManager,
                                              systems, providers, domainMap, registered,
                                              bootstraps)
       IN  /\ SystemAfter(sys)
           /\ providers' = sys.providers
           /\ domainMap' = sys.domainMap
           /\ registered' = sys.registered
           /\ bootstraps' = sys.bootstraps
    /\ phase' = "ready"
    /\ UNCHANGED <<last, initResult, command, appState, served>>
    /\ UNCHANGED <<jwtVars, sessionVars, singletonVars, lockVars, waitVars, retrieveVars>>

\* one more call of InitializeCertificateSystem by any code of the process
CallInitializeCertificateSystem ==
    /\ phase # "loaded"
    /\ Len(returned) < MaxSystemCalls
    /\ LET sys == InitializeCertificateSystem(globalProviderRegistry, globalBootstrapManager,
                                              systems, providers, domainMap, registered,
                                              bootstraps)
       IN  /\ SystemAfter(sys)
           /\ providers' = sys.providers
           /\ domainMap' = sys.domainMap
           /\ registered' = sys.registered
           /\ bootstraps' = sys.bootstraps
    /\ UNCHANGED <<last, initResult, phase, command, appState, served>>
    /\ UNCHANGED <<jwtVars, sessionVars, singletonVars, lockVars, waitVars, retrieveVars>>

\* PersistentPreRunE that stores the shared state before it looks at the
\* error of InitializeProviders
Published_Early(err, reg, mgr) ==
    [providerRegistry |-> reg, bootstrapManager |-> mgr]

\* appState after PersistentPreRunE: assigned only past the error return
Published(err, reg, mgr) ==
    IF err # "none" THEN NoState
    ELSE [providerRegistry |-> reg, bootstrapManager |-> mgr]

\* rootCmd.PersistentPreRunE for command path c, with the flags and the
\* environment b that the bootstraps read
PersistentPreRunE(c, b) ==
    /\ phase = "ready"
    /\ command' = c
    /\ IF skipProviderInit(c)
       THEN /\ phase' = "prerun-done"
            /\ UNCHANGED <<providers, domainMap, registered, bootstraps, initResult,
                           appState, globalProviderRegistry, globalBootstrapManager,
                           systems, returned>>
       ELSE LET sys == InitializeCertificateSystem(globalProviderRegistry,
                                                   globalBootstrapManager, systems, providers,
                                                   domainMap, registered, bootstraps)
                bs == [i \in DOMAIN sys.bootstraps |-> b]
                r == InitializeLoop(bs, 1, sys.providers, sys.domainMap, <<>>, <<>>, 0)
            IN  /\ SystemAfter(sys)
                /\ bootstraps' = bs
                /\ providers' = r.providers
                /\ domainMap' = r.domainMap
                /\ registered' = sys.registered \cup
                       {CreateProvider(bs[i]).provider : i \in Range(r.activated)}
                /\ initResult' = [err |-> r.err, created |-> r.created,
                                  activated |-> r.activated, failedAt |-> r.failedAt]
                /\ appState' = Published(r.err, sys.registry, sys.manager)
                /\ phase' = IF r.err # "none" THEN "prerun-failed" ELSE "prerun-done"
    /\ UNCHANGED <<last, served>>
    /\ UNCHANGED <<jwtVars, sessionVars, singletonVars, lockVars, waitVars, retrieveVars>>

\* the body of a command that uses no provider (jwt, version)
RunPlain ==
    /\ phase = "prerun-done"
    /\ command \notin {<<Program, "certs", "retrieve">>, <<Program, "certs", "serve">>,
                       <<Program, "domain", "list">>}
    /\ served' = [err |-> "none", command |-> command, answer |-> {}]
    /\ phase' = "exited"
    /\ UNCHANGED <<registryVars, bootVars, command, appState, globalProviderRegistry,
                   globalBootstrapManager, systems, returned>>
    /\ UNCHANGED <<jwtVars, sessionVars, singletonVars, lockVars, waitVars, retrieveVars>>

\* retrieveCmd.RunE for the domain d, up being the outcome of the provider's
\* upstream call
RunRetrieve(d, up) ==
    /\ phase = "prerun-done"
    /\ command = <<Program, "certs", "retrieve">>
    /\ served' =
           IF appState = NoState
           THEN [err |-> "not-initialized", command |-> command, answer |-> {}]
           ELSE IF GetProviderForDomain(domainMap, d).err # "none"
           THEN [err |-> "no-provider-found", command |-> command, answer |-> {}]
           ELSE [err |-> ProviderRetrieve(GetProviderForDomain(domainMap, d).provider, d, up).err,
                 command |-> command,
                 answer |-> {d, GetProviderName(GetProviderForDomain(domainMap, d).provider)}]
    /\ phase' = "exited"
    /\ UNCHANGED <<registryVars, bootVars, command, appState, globalProviderRegistry,
                   globalBootstrapManager, systems, returned>>
    /\ UNCHANGED <<jwtVars, sessionVars, singletonVars, lockVars, waitVars, retrieveVars>>

\* listCmd.RunE
RunDomainList ==
    /\ phase = "prerun-done"
    /\ command = <<Program, "domain", "list">>
    /\ served' =
           IF appState = NoState
           THEN [err |-> "not-initialized", command |-> command, answer |-> {}]
           ELSE [err |-> "none", command |-> command, answer |-> ListDomains(domainMap)]
    /\ phase' = "exited"
    /\ UNCHANGED <<registryVars, bootVars, command, appState, globalProviderRegistry,
                   globalBootstrapManager, systems, returned>>
    /\ UNCHANGED <<jwtVars, sessionVars, singletonVars, lockVars, waitVars, retrieveVars>>

\* values of the --jwt-secret-key flag and of JWT_SECRET_KEY
SecretFlags == {"", "flag-key"}

SecretEnvs == {"", "env-key"}

\* serveCmd.RunE that does not test the resolved key
ServeResult_AnyKey(state, c, flag, env, dm) ==
    LET jwtSecretKey == IF flag = "" THEN env ELSE flag
    IN  IF state = NoState
        THEN [err |-> "not-initialized", command |-> c, answer |-> {}]
        ELSE IF Cardinality(ListDomains(dm)) = 0
        THEN [err |-> "no-domains", command |-> c, answer |-> {}]
        ELSE [err |-> "none", command |-> c, key |-> jwtSecretKey,
              answer |-> ListDomains(dm)]

\* what serveCmd.RunE does up to the start of the server: the error it
\* returns, or the key that the /graphql handler it installs hands to every
\* request together with the domains it announces
ServeResult(state, c, flag, env, dm) ==
    LET jwtSecretKey == IF flag = "" THEN env ELSE flag
    IN  IF state = NoState
        THEN [err |-> "not-initialized", command |-> c, answer |-> {}]
        ELSE IF jwtSecretKey = ""
        THEN [err |-> "jwt-secret-required", command |-> c, answer |-> {}]
        ELSE IF Cardinality(ListDomains(dm)) = 0
        THEN [err |-> "no-domains", command |-> c, answer |-> {}]
        ELSE [err |-> "none", command |-> c, key |-> jwtSecretKey,
              answer |-> ListDomains(dm)]

\* serveCmd.RunE up to the start of the server, with the --jwt-secret-key
\* flag and the JWT_SECRET_KEY environment variable
RunServe(flag, env) ==
    /\ phase = "prerun-done"
    /\ command = <<Program, "certs", "serve">>
    /\ served' = ServeResult(appState, command, flag, env, domainMap)
    /\ phase' = "exited"
    /\ UNCHANGED <<registryVars, bootVars, command, appState, globalProviderRegistry,
                   globalBootstrapManager, systems, returned>>
    /\ UNCHANGED <<jwtVars, sessionVars, singletonVars, lockVars, waitVars, retrieveVars>>

StartNext ==
    \/ PackageInit
    \/ CallInitializeCertificateSystem
    \/ \E c \in CommandPaths, b \in PorkbunSettings : PersistentPreRunE(c, b)
    \/ RunPlain
    \/ \E d \in LookupDomains, up \in UpstreamOutcomes : RunRetrieve(d, up)
    \/ RunDomainList
    \/ \E flag \in SecretFlags, env \in SecretEnvs : RunServe(flag, env)

SpecStart == Init /\ [][StartNext]_vars

----------------------------------------------------------------------------
(* Claims about process start, checked under SpecStart *)

\* the commands whose body reads the registry
RegistryCommands ==
    {<<Program, "certs", "retrieve">>, <<Program, "certs", "serve">>,
     <<Program, "domain", "list">>}

\* C29: if InitializeProviders returned an error during startup, the shared
\* application state is not published and no command body runs, so nothing
\* is looked up, listed or retrieved from the registry of that process.
C29_FailedStartServesNothing ==
    (Ran /\ initResult.err # "none")
        => /\ appState = NoState
           /\ served = NotServed
           /\ phase = "prerun-failed"
           /\ ~ENABLED RunPlain
           /\ ~ENABLED RunDomainList
           /\ \A d \in LookupDomains, up \in UpstreamOutcomes : ~ENABLED RunRetrieve(d, up)
           /\ \A flag \in SecretFlags, env \in SecretEnvs : ~ENABLED RunServe(flag, env)

\* a configured bootstrap failed to create its provider at the start of a
\* command that reads the registry
C29_Witness ==
    /\ Ran
    /\ initResult.err = "CreateProviderFailed"
    /\ command \in RegistryCommands
    /\ phase = "prerun-failed"
    /\ globalProviderRegistry # 0

\* C30: all calls of InitializeCertificateSystem in a process return the
\* same registry and the same bootstrap manager, that manager holds the
\* porkbun bootstrap exactly once, and InitializeProviders creates and
\* registers provider porkbun at most once.
C30_OneSystemOnePorkbun ==
    /\ \A i, j \in DOMAIN returned : returned[i] = returned[j]
    /\ \A i \in DOMAIN returned :
           /\ returned[i][1] # 0
           /\ returned[i] = <<globalProviderRegistry, globalBootstrapManager>>
    /\ globalBootstrapManager # 0 =>
           /\ Len(bootstraps) = 1
           /\ GetProviderName(bootstraps[1]) = "porkbun"
    /\ Ran =>
           /\ Len(initResult.created) <= 1
           /\ initResult.err # "RegisterFailed"
           /\ appState # NoState =>
                  appState = [providerRegistry |-> returned[1][1],
                              bootstrapManager |-> returned[1][2]]

\* package init, one more call and the pre-run all returned the same pair,
\* and InitializeProviders registered porkbun
C30_Witness ==
    /\ Len(returned) >= 3
    /\ Ran
    /\ initResult.err = "none"
    /\ initResult.created = <<1>>
    /\ Activated(1)
    /\ appState # NoState

\* the serve command has installed its request handlers
Serving ==
    /\ served # NotServed
    /\ served.command = <<Program, "certs", "serve">>
    /\ served.err = "none"

\* an unexpired token with all required claims, signed with a key that no
\* flag or environment of the server holds
ForeignToken ==
    CreateJWT(<<97>>, <<97>>, MaxTime + TicksPerSecond, <<>>, "w", 0).token

\* C31: the serve command installs its request handlers only with a
\* non-empty JWT secret, the flag's or else the environment's, so that
\* ParseJWT with the handler's key rejects a token signed with another key,
\* which the unverified parse accepts; when neither the flag nor
\* JWT_SECRET_KEY gives a key the command returns an error and installs
\* nothing.
C31_ServeNeedsSecret ==
    [][\A flag \in SecretFlags, env \in SecretEnvs :
          RunServe(flag, env) =>
              /\ (flag = "" /\ env = "") => ~Serving'
              /\ Serving' =>
                     /\ served'.key # ""
                     /\ served'.key = (IF flag # "" THEN flag ELSE env)
                     /\ ParseJWTResult(ForeignToken, "", 0).err = "none"
                     /\ ParseJWTResult(ForeignToken, served'.key, 0).err
                            = "signature-invalid"]_vars

\* the serve command was started over a registry with domains and found no key
C31_Witness ==
    /\ served # NotServed
    /\ served.command = <<Program, "certs", "serve">>
    /\ served.err = "jwt-secret-required"
    /\ appState # NoState
    /\ ListDomains(domainMap) # {}

----------------------------------------------------------------------------
(* The create-token command (cmd/jwt-create-token.go), checked under       *)
(* SpecToken: the command issues a token from its flags and environment,   *)
(* the clock ticks, ParseJWT is called on the token.  The --expires-at      *)
(* text is taken as the instant it denotes.                                 *)

Comma == 44

Space == 32

\* the --allowed-domains text: "", "*.a", "a, *.a", " a,,\xC3"
CommandDomainLists ==
    {<<>>, <<42, 46, 97>>, <<97, Comma, Space, 42, 46, 97>>,
     <<Space, 97, Comma, Comma, 195>>}

CommandRequests ==
    [userID : UserIDs, description : Descriptions, expiresAt : ExpiryTimes,
     allowedDomains : CommandDomainLists,
     flag : {"", "k"}, env : {"", "w"}]

\* strings.Split(s, ","): the parts between the commas, empty parts included
RECURSIVE Split(_)
Split(s) ==
    IF \A i \in DOMAIN s : s[i] # Comma THEN <<s>>
    ELSE LET i == CHOOSE k \in DOMAIN s :
                      s[k] = Comma /\ \A j \in 1 .. (k - 1) : s[j] # Comma
         IN  <<SubSeq(s, 1, i - 1)>> \o Split(SubSeq(s, i + 1, Len(s)))

\* an entry left as strings.Split returned it
TrimSpace_Kept(s) ==
    s

\* strings.TrimSpace: without the leading and the trailing spaces
RECURSIVE TrimSpace(_)
TrimSpace(s) ==
    IF s = <<>> THEN s
    ELSE IF s[1] = Space THEN TrimSpace(Tail(s))
    ELSE IF s[Len(s)] = Space THEN TrimSpace(SubSeq(s, 1, Len(s) - 1))
    ELSE s

\* allowedDomainsList of the command
allowedDomainsList(text) ==
    [i \in DOMAIN Split(text) |-> TrimSpace(Split(text)[i])]

\* createTokenCmd.RunE at time t: the error, or the token signed over the
\* map of claims the command builds
CreateTokenCommand(userID, description, allowedDomains, expiresAt, flag, env, t) ==
    LET jwtSecretKey == IF flag = "" THEN env ELSE flag
        claims == [user_id |-> CoerceUTF8(userID),
                   description |-> CoerceUTF8(description),
                   allowed_domains |->
                       [i \in DOMAIN allowedDomainsList(allowedDomains) |->
                           CoerceUTF8(allowedDomainsList(allowedDomains)[i])],
                   exp |-> NumericDate(expiresAt), iat |-> NumericDate(t),
                   nbf |-> NumericDate(t),
                   iss |-> CoerceUTF8(Issuer), sub |-> CoerceUTF8(userID)]
        header == [alg |-> "HS256", typ |-> "JWT"]
    IN  IF userID = <<>> THEN [err |-> "user-id-required", token |-> NoToken]
        ELSE IF allowedDomains = <<>>
        THEN [err |-> "allowed-domains-required", token |-> NoToken]
        ELSE IF jwtSecretKey = "" THEN [err |-> "jwt-secret-required", token |-> NoToken]
        ELSE [err |-> "none",
              token |-> [segments |-> 3, header |-> header, payload |-> claims,
                         signature |-> Hmac(jwtSecretKey, header, claims)]]

RunCreateToken ==
    /\ token = NoToken
    /\ token' = CreateTokenCommand(req.userID, req.description, req.allowedDomains,
                                   req.expiresAt, req.flag, req.env, now).token
    /\ UNCHANGED <<now, req, verified, accepted>>
    /\ UNCHANGED <<registryVars, bootVars, sessionVars, processVars>>

TokenInit ==
    /\ RegistryInit
    /\ BootInit
    /\ SessionInit
    /\ ProcessInit
    /\ now = 0
    /\ req \in CommandRequests
    /\ token = NoToken
    /\ verified = NotVerified
    /\ accepted = NeverAccepted

TokenNext ==
    \/ Tick
    \/ RunCreateToken
    \/ \E secret \in SigningKeys : ParseJWT(secret)

SpecToken == TokenInit /\ [][TokenNext]_vars

\* the key the command signed with
CommandKey == IF req.flag = "" THEN req.env ELSE req.flag

\* ParseJWT was called with the command's key on the command's token
VerifiedWithCommandKey ==
    /\ verified # NotVerified
    /\ verified.key = CommandKey

\* ParseJWT returned the command's user ID, description and trimmed entries:
\* the parts between the commas, none with a space at either end
YieldsCommandInputs ==
    /\ verified.result.err = "none"
    /\ verified.result.claims.UserID = req.userID
    /\ verified.result.claims.Description = req.description
    /\ verified.result.claims.AllowedDomains = allowedDomainsList(req.allowedDomains)
    /\ \A i \in DOMAIN verified.result.claims.AllowedDomains :
           LET entry == verified.result.claims.AllowedDomains[i]
           IN  /\ \A j \in DOMAIN entry : entry[j] # Comma
               /\ entry # <<>> => entry[1] # Space /\ entry[Len(entry)] # Space

\* what ParseJWT returns, at the time of the last call, for the token that
\* CreateJWT makes of the command's inputs at the time the command ran
ThroughCreateJWT ==
    ParseJWTResult(CreateJWT(req.userID, req.description, req.expiresAt,
                             allowedDomainsList(req.allowedDomains), CommandKey,
                             token.payload.iat).token,
                   CommandKey, verified.at)

CommandInputsValidUTF8 ==
    /\ CoerceUTF8(req.userID) = req.userID
    /\ CoerceUTF8(req.description) = req.description
    /\ \A i \in DOMAIN allowedDomainsList(req.allowedDomains) :
           CoerceUTF8(allowedDomainsList(req.allowedDomains)[i])
               = allowedDomainsList(req.allowedDomains)[i]

\* C32 as stated: a token of the create-token command with an expiry still in
\* the future is accepted by ParseJWT with the command's key and yields the
\* command's user ID, description and trimmed domain entries in order, the
\* same as CreateJWT followed by ParseJWT.
C32_CommandTokenAnyInput ==
    (VerifiedWithCommandKey /\ req.expiresAt > verified.at)
        => /\ YieldsCommandInputs
           /\ verified.result = ThroughCreateJWT

\* C32 amended: ParseJWT with the command's key always returns for the
\* command's token what it returns for the token of CreateJWT on the same
\* inputs; it accepts the token and yields the user ID, the description and
\* the trimmed entries when these are valid UTF-8 and the expiry truncated to
\* whole seconds is after the time of the verification.
C32_CommandToken ==
    VerifiedWithCommandKey =>
        /\ verified.result = ThroughCreateJWT
        /\ (CommandInputsValidUTF8 /\ NumericDate(req.expiresAt) > verified.at)
               => YieldsCommandInputs

\* a token for a list with a space after its comma, verified after the clock
\* moved and before the truncated expiry
C32_Witness ==
    /\ VerifiedWithCommandKey
    /\ req.allowedDomains = <<97, Comma, Space, 42, 46, 97>>
    /\ req.description = <<97>>
    /\ req.flag = ""
    /\ NumericDate(req.expiresAt) # req.expiresAt
    /\ verified.at > 0
    /\ YieldsCommandInputs
    /\ verified.result.claims.AllowedDomains = <<<<97>>, <<42, 46, 97>>>>

----------------------------------------------------------------------------
(* Further claims about sessions, checked under SpecSession *)

\* thread t calls GetSession for a stored session that is expired
GetsExpired(t, sessionID) ==
    /\ GetSession(t, sessionID)
    /\ sessionID \in DOMAIN sessions
    /\ Expired(sessions[sessionID], clock)

\* C33: a GetSession that finds an expired session returns not-found in that
\* same step, whatever other readers and pending evictions there are: the
\* entry is still in the store, the eviction is only scheduled, the caller
\* holds no lock afterwards, and the scheduled eviction can run as soon as
\* no reader holds the lock.
C33_ExpiredGetDoesNotWait ==
    [][\A t \in Threads, sessionID \in KnownIDs :
          /\ (/\ reading[t] = Idle
              /\ sessionID \in DOMAIN sessions
              /\ Expired(sessions[sessionID], clock)) => ENABLED GetSession(t, sessionID)
          /\ GetsExpired(t, sessionID) =>
                 /\ lastGet' = [id |-> sessionID, found |-> FALSE]
                 /\ sessions' = sessions
                 /\ sessionID \in DOMAIN sessions'
                 /\ sessionID \in evictions'
                 /\ reading'[t] = Idle
                 /\ reading' = reading
                 /\ (~ReadLocked => (ENABLED AsyncDeleteSession(sessionID))')]_vars

\* an expired session was read while the other thread held the read lock;
\* not-found was returned and the entry is still stored
C33_Witness ==
    /\ \E id \in DOMAIN sessions :
           /\ Expired(sessions[id], clock)
           /\ id \in evictions
           /\ lastGet = [id |-> id, found |-> FALSE]
    /\ ReadLocked

\* C36: the writes of a stored record exclude one another: no two GetSession
\* calls are between their RLock and their write of LastAccessedAt for the
\* same session ID at the same time.
C36_RecordWritesExclusive ==
    \A t \in Threads, u \in Threads :
        (t # u /\ reading[t] # Idle) => reading[t].id # reading[u].id

\* C37: the eviction GetSession scheduled, whenever it runs and whatever ran
\* between, removes at most the entry of its own ID, and that entry is
\* expired at that moment; while it is pending, a stored session of its ID
\* is an expired one.
C37_EvictionRemovesExpiredOnly ==
    [][/\ \A id \in evictions :
              AsyncDeleteSession(id) =>
                  /\ DOMAIN sessions' = DOMAIN sessions \ {id}
                  /\ \A other \in DOMAIN sessions' : sessions'[other] = sessions[other]
                  /\ id \in DOMAIN sessions => Expired(sessions[id], clock)
       /\ \A id \in evictions' \cap DOMAIN sessions' :
              Expired(sessions'[id], clock')]_vars

\* an eviction is pending for a stored expired session and can run now,
\* after a CreateSession that followed the GetSession stored a session that
\* is not expired
C37_Witness ==
    \E id \in evictions \cap DOMAIN sessions :
        /\ Expired(sessions[id], clock)
        /\ lastGet = [id |-> id, found |-> FALSE]
        /\ ENABLED AsyncDeleteSession(id)
        /\ \E other \in DOMAIN sessions :
               /\ ~Expired(sessions[other], clock)
               /\ sessions[other].CreatedAt > sessions[id].ExpireDate

\* the fields of a stored record that no operation writes after its creation
FixedFields(session) ==
    [SessionID |-> session.SessionID, UserID |-> session.UserID,
     Description |-> session.Description,
     AllowedDomains |-> session.AllowedDomains,
     CreatedAt |-> session.CreatedAt, ExpireDate |-> session.ExpireDate]

\* C38: as long as a session stays in the store its SessionID, UserID,
\* Description, AllowedDomains, CreatedAt and ExpireDate are those of the
\* step before; a record changes only in LastAccessedAt and only by the
\* return of a GetSession of its ID, and DeleteSession, the evictions and
\* the sweeps leave every record they do not remove as it was.
C38_OnlyLastAccessedAtChanges ==
    [][\A id \in DOMAIN sessions \cap DOMAIN sessions' :
          /\ sessions[id].SessionID = id
          /\ FixedFields(sessions'[id]) = FixedFields(sessions[id])
          /\ sessions'[id].ExpireDate <= sessions[id].ExpireDate
          /\ sessions'[id] # sessions[id] =>
                 \E t \in Threads : GetSessionReturn(t) /\ reading[t].id = id
          /\ ((\E other \in KnownIDs : DeleteSession(other) \/ AsyncDeleteSession(other))
               \/ CleanupExpiredSessions \/ cleanupExpiredSessions) =>
                 sessions'[id] = sessions[id]]_vars

\* a GetSession wrote LastAccessedAt of a stored session after its creation,
\* and DeleteSession removed another one
C38_Witness ==
    \E id \in DOMAIN sessions :
        /\ sessions[id].LastAccessedAt > sessions[id].CreatedAt
        /\ lastGet = [id |-> id, found |-> TRUE]
        /\ deleted \ {id} # {}

----------------------------------------------------------------------------
(* Progress of the evictions and of the background sweep.  Here the        *)
(* goroutine that GetSession starts and the ticker loop are taken in two   *)
(* steps, the call of sm.mutex.Lock() and the critical section, because    *)
(* sync.RWMutex holds back every new RLock while a Lock call waits: the     *)
(* readers that hold the lock return, no new one gets in, and the waiting   *)
(* goroutine gets the lock.                                                 *)

Sweeper == "sweeper"

FairOwner == [userID |-> "bob", description |-> "", allowedDomains |-> <<>>]

\* a token expiry already reached, and one beyond the session lifetime
FairExpireDates == {0, MaxClock}

\* GetSession: its RLock returns only while no Lock call waits
GetSessionNoWaiter(t, sessionID) ==
    /\ lockWaiters = {}
    /\ GetSession(t, sessionID)

\* the goroutine started by GetSession calls DeleteSession, which calls Lock
EvictionLock(sessionID) ==
    /\ sessionID \in evictions
    /\ sessionID \notin lockWaiters
    /\ lockWaiters' = lockWaiters \cup {sessionID}
    /\ UNCHANGED <<registryVars, bootVars, jwtVars, sessionVars, singletonVars,
                   lockVars, startVars, retrieveVars>>

\* DeleteSession of that goroutine from the return of Lock to its own return
EvictionDelete(sessionID) ==
    /\ sessionID \in lockWaiters
    /\ ~ReadLocked
    /\ sessions' = MapDelete(sessions, sessionID)
    /\ evictions' = evictions \ {sessionID}
    /\ creations' = Kept(creations, sessions')
    /\ deleted' = deleted \cup {sessionID}
    /\ lockWaiters' = lockWaiters \ {sessionID}
    /\ UNCHANGED <<clock, issued, reading, lastGet>>
    /\ UNCHANGED <<registryVars, bootVars, jwtVars, singletonVars, lockVars, startVars, retrieveVars>>

\* the ticker fires and the loop of cleanupExpiredSessions calls Lock
SweepLock ==
    /\ Sweeper \notin lockWaiters
    /\ lockWaiters' = lockWaiters \cup {Sweeper}
    /\ UNCHANGED <<registryVars, bootVars, jwtVars, sessionVars, singletonVars,
                   lockVars, startVars, retrieveVars>>

\* one round of the loop from the return of Lock to Unlock
SweepRound ==
    /\ Sweeper \in lockWaiters
    /\ ~ReadLocked
    /\ sessions' = Swept(sessions, clock)
    /\ creations' = Kept(creations, sessions')
    /\ lockWaiters' = lockWaiters \ {Sweeper}
    /\ UNCHANGED <<clock, issued, reading, evictions, deleted, lastGet>>
    /\ UNCHANGED <<registryVars, bootVars, jwtVars, singletonVars, lockVars, startVars, retrieveVars>>

FairNext ==
    \/ AdvanceClock
    \/ \E expireDate \in FairExpireDates :
           CreateSession(FairOwner.userID, FairOwner.description, expireDate,
                         FairOwner.allowedDomains)
    \/ \E t \in Threads, sessionID \in KnownIDs : GetSessionNoWaiter(t, sessionID)
    \/ \E t \in Threads : GetSessionReturn(t)
    \/ \E sessionID \in KnownIDs : DeleteSession(sessionID)
    \/ \E sessionID \in evictions : EvictionLock(sessionID)
    \/ \E sessionID \in lockWaiters \ {Sweeper} : EvictionDelete(sessionID)
    \/ SweepLock
    \/ SweepRound

\* every GetSession call that holds the read lock returns
ReadersReturn ==
    \A t \in Threads : WF_vars(GetSessionReturn(t))

\* the session manager with the goroutines started by GetSession scheduled
\* fairly, and nothing assumed of the sweep
SpecEvictFair ==
    /\ Init
    /\ [][FairNext]_vars
    /\ ReadersReturn
    /\ \A i \in DOMAIN SessionIDs :
           /\ WF_vars(EvictionLock(SessionIDs[i]))
           /\ WF_vars(EvictionDelete(SessionIDs[i]))

\* C34: under fair scheduling, once a GetSession call has found a session
\* expired, the session's entry is eventually removed from the store, also
\* when no sweep runs and nothing else touches the ID.
C34_EvictionRemoves ==
    \A i \in DOMAIN SessionIDs :
        (SessionIDs[i] \in evictions /\ SessionIDs[i] \in DOMAIN sessions)
            ~> (SessionIDs[i] \notin DOMAIN sessions)

\* an eviction is scheduled for a stored session and has not yet called
\* Lock, while a reader holds the lock
C34_Witness ==
    /\ \E id \in evictions :
           /\ id \in DOMAIN sessions
           /\ Expired(sessions[id], clock)
           /\ id \notin lockWaiters
    /\ Sweeper \notin lockWaiters
    /\ ReadLocked

\* the session manager with the ticker loop of cleanupExpiredSessions
\* scheduled fairly, and nothing assumed of the evictions
SpecSweepFair ==
    /\ Init
    /\ [][FairNext]_vars
    /\ ReadersReturn
    /\ WF_vars(SweepLock)
    /\ WF_vars(SweepRound)

\* C35: under fair scheduling of the background sweep, a stored session that
\* has expired is eventually removed from the store, also when it is never
\* read or deleted.
C35_SweepRemoves ==
    \A i \in DOMAIN SessionIDs :
        (/\ SessionIDs[i] \in DOMAIN sessions
         /\ Expired(sessions[SessionIDs[i]], clock))
            ~> (SessionIDs[i] \notin DOMAIN sessions)

\* two expired sessions are stored, neither was read after its expiry
C35_Witness ==
    /\ Cardinality(DOMAIN sessions) = 2
    /\ \A id \in DOMAIN sessions : Expired(sessions[id], clock) /\ id \notin evictions
    /\ lastGet = NoGet
    /\ lockWaiters = {}

====
